---- MODULE Spec2Model ----
(***************************************************************************)
(* TimeTable-Manager: the upload and process routes, the hybrid OCR + LLM  *)
(* extraction pipeline (both revisions of HybridTimetableProcessor and the *)
(* older timetable-processor), and the grid's sort.                        *)
(*                                                                         *)
(* Text the code inspects character by character (titles, descriptions,    *)
(* time strings) is a tuple of one-character strings; text the code only   *)
(* compares for equality (days, MIME types, colours) is a TLA+ string.     *)
(***************************************************************************)
EXTENDS Integers, Sequences, FiniteSets, TLC

VARIABLES
    route,        \* which POST /api/process handler is deployed
    version,      \* which revision of HybridTimetableProcessor is deployed
    knowledgeBase,\* the RAG processor's knowledgeBase Map, as [key, blocks] pairs
    files,        \* prisma.uploadedFile rows, id = index
    disk,         \* stored file names written under uploads/
    teachers,     \* prisma.teacher rows, id = index
    timetables,   \* prisma.timetable rows, id = index
    timeblocks,   \* prisma.timeBlock rows
    upload,       \* the last POST /api/upload exchange
    req,          \* the POST /api/process request in flight
    nreq,         \* process requests started so far
    grid,         \* TimetableGrid: the timeblocks array and its render history
    parser,       \* one call of parseJSONResponse: its input and what it made of it
    rag,          \* getEnhancedTimeblocks and searchKnowledgeBase on the singleton
    edit,         \* the last PUT /api/timeblocks/[id] exchange
    race,         \* POST /api/process handlers running concurrently
    console,      \* the global console functions and the LogCaptures patched over them
    client,       \* the grid's copy of a timetable and its PUT /api/timetables/[id]
    words,        \* one call of groupWordsByLines: the words and the lines made of them
    clock,        \* one call of calculateDuration: the two times and the result
    home          \* the home page: its timetable list and the selected timetable

vars == <<route, version, knowledgeBase, files, disk, teachers, timetables, timeblocks,
          upload, req, nreq, grid, parser, rag, edit, race,
          console, client, words, clock, home>>

appVars == <<route, version, knowledgeBase, files, disk, teachers, timetables, timeblocks,
             upload, req, nreq, parser, rag, edit, race,
             console, client, words, clock, home>>

\* the state of the parts the upload and process routes never touch
sideVars == <<console, client, words, clock, home>>

\* the state of the routes, the processors, the grid's sort and the editor
routeVars == <<route, version, knowledgeBase, files, disk, teachers, timetables,
               timeblocks, upload, req, nreq, grid, parser, rag, edit, race>>

----------------------------------------------------------------------------
(* Bounds of the model *)

\* uploads accepted or refused in one behaviour
MaxUploads ==
    1

\* process requests started in one behaviour
MaxRequests ==
    2

\* longest timeblocks array handed to the grid
MaxGridBlocks ==
    3

\* longest text between the fences of a provider's response
MaxText ==
    4

\* longest nested array of an entry of the parsed timeblocks array
MaxNested ==
    2

\* longest parsed timeblocks array built from the small entries
MaxEntries ==
    2

\* longest timeblocks array handed to getEnhancedTimeblocks on its own
MaxKbBlocks ==
    2

\* calls of getEnhancedTimeblocks in one process lifetime
MaxExtractions ==
    2

\* PUT /api/timeblocks/[id] requests in one behaviour
MaxEdits ==
    2

\* log-capturing process requests in one behaviour
MaxCaptures ==
    2

\* lines one LogCapture holds before the model stops counting
MaxLines ==
    2

\* PUT /api/timetables/[id] requests the grid sends in one behaviour
MaxPuts ==
    2

\* DELETE /api/timeblocks/[id] requests the grid sends in one behaviour
MaxDeletes ==
    1

\* longest list of extracted blocks the standard blocks are added to
MaxExtracted ==
    2

\* largest limit a caller of searchKnowledgeBase passes
MaxLimit ==
    2

\* most words Tesseract reports for one image
MaxWords ==
    3

\* timetables in the database when the home page is opened
MaxStored ==
    2

\* timetables created through the upload form in one behaviour
MaxCreated ==
    1

\* POST /api/process handlers running at the same time
MaxHandlers ==
    2

----------------------------------------------------------------------------
(* Strings as tuples of characters *)

Range(s) == {s[i] : i \in 1..Len(s)}

\* a sequence written as a function constructor, evaluated once into a tuple
Tuple(f) == f \o <<>>

\* String.prototype.startsWith
StartsWith(s, p) ==
    /\ Len(p) <= Len(s)
    /\ \A i \in 1..Len(p) : s[i] = p[i]

\* String.prototype.includes
Includes(s, p) ==
    \E k \in 0..(Len(s) - Len(p)) : \A i \in 1..Len(p) : s[k + i] = p[i]

UpperCase == <<"A","B","C","D","E","F","G","H","I","J","K","L","M",
               "N","O","P","Q","R","S","T","U","V","W","X","Y","Z">>

LowerCase == <<"a","b","c","d","e","f","g","h","i","j","k","l","m",
               "n","o","p","q","r","s","t","u","v","w","x","y","z">>

LowerChar(c) ==
    IF \E i \in 1..Len(UpperCase) : UpperCase[i] = c
    THEN LowerCase[CHOOSE i \in 1..Len(UpperCase) : UpperCase[i] = c]
    ELSE c

\* String.prototype.toLowerCase
ToLowerCase(s) == Tuple([i \in 1..Len(s) |-> LowerChar(s[i])])

----------------------------------------------------------------------------
(* The hardcoded schedules *)

\* the four blocks of getFallbackData, first processor
FirstFallbackBlocks ==
  <<
    [title |-> <<"M","a","t","h","s">>,
      description |-> <<"M","a","t","h","e","m","a","t","i","c","s"," ","l","e","s","s","o","n">>,
      startTime |-> <<"0","9",":","0","0">>, endTime |-> <<"1","0",":","0","0">>,
      dayOfWeek |-> "Monday", duration |-> 60, color |-> "#F59E0B"],
    [title |-> <<"E","n","g","l","i","s","h">>,
      description |-> <<"E","n","g","l","i","s","h"," ","l","a","n","g","u","a","g","e"," ","l","e","s","s","o","n">>,
      startTime |-> <<"1","0",":","1","5">>, endTime |-> <<"1","1",":","1","5">>,
      dayOfWeek |-> "Monday", duration |-> 60, color |-> "#8B5CF6"],
    [title |-> <<"S","c","i","e","n","c","e">>,
      description |-> <<"S","c","i","e","n","c","e"," ","l","e","s","s","o","n">>,
      startTime |-> <<"1","3",":","0","0">>, endTime |-> <<"1","4",":","0","0">>,
      dayOfWeek |-> "Monday", duration |-> 60, color |-> "#06B6D4"],
    [title |-> <<"A","r","t">>,
      description |-> <<"A","r","t"," ","a","n","d"," ","D","e","s","i","g","n">>,
      startTime |-> <<"1","4",":","0","0">>, endTime |-> <<"1","5",":","0","0">>,
      dayOfWeek |-> "Monday", duration |-> 60, color |-> "#EC4899"]
  >>

\* the seven blocks of getFallbackData, RAG processor
RagFallbackBlocks ==
  <<
    [title |-> <<"M","o","r","n","i","n","g"," ","R","e","g","i","s","t","r","a","t","i","o","n">>,
      description |-> <<"D","a","i","l","y"," ","r","o","u","t","i","n","e"," ","-"," ","e","x","t","r","a","c","t","e","d"," ","f","r","o","m"," ","u","p","l","o","a","d","e","d"," ","f","i","l","e">>,
      startTime |-> <<"0","8",":","3","5">>, endTime |-> <<"0","9",":","0","0">>,
      dayOfWeek |-> "Monday", duration |-> 25, color |-> "#3B82F6"],
    [title |-> <<"M","a","t","h","s">>,
      description |-> <<"M","a","t","h","e","m","a","t","i","c","s"," ","l","e","s","s","o","n">>,
      startTime |-> <<"0","9",":","0","0">>, endTime |-> <<"1","0",":","0","0">>,
      dayOfWeek |-> "Monday", duration |-> 60, color |-> "#F59E0B"],
    [title |-> <<"B","r","e","a","k">>,
      description |-> <<"M","o","r","n","i","n","g"," ","b","r","e","a","k">>,
      startTime |-> <<"1","0",":","0","0">>, endTime |-> <<"1","0",":","1","5">>,
      dayOfWeek |-> "Monday", duration |-> 15, color |-> "#10B981"],
    [title |-> <<"E","n","g","l","i","s","h">>,
      description |-> <<"E","n","g","l","i","s","h"," ","l","a","n","g","u","a","g","e"," ","l","e","s","s","o","n">>,
      startTime |-> <<"1","0",":","1","5">>, endTime |-> <<"1","1",":","1","5">>,
      dayOfWeek |-> "Monday", duration |-> 60, color |-> "#8B5CF6"],
    [title |-> <<"L","u","n","c","h">>,
      description |-> <<"L","u","n","c","h"," ","b","r","e","a","k">>,
      startTime |-> <<"1","2",":","0","0">>, endTime |-> <<"1","3",":","0","0">>,
      dayOfWeek |-> "Monday", duration |-> 60, color |-> "#EF4444"],
    [title |-> <<"S","c","i","e","n","c","e">>,
      description |-> <<"S","c","i","e","n","c","e"," ","l","e","s","s","o","n">>,
      startTime |-> <<"1","3",":","0","0">>, endTime |-> <<"1","4",":","0","0">>,
      dayOfWeek |-> "Monday", duration |-> 60, color |-> "#06B6D4"],
    [title |-> <<"S","t","o","r","y"," ","T","i","m","e">>,
      description |-> <<"E","n","d"," ","o","f"," ","d","a","y"," ","s","t","o","r","y">>,
      startTime |-> <<"1","5",":","0","0">>, endTime |-> <<"1","5",":","1","5">>,
      dayOfWeek |-> "Monday", duration |-> 15, color |-> "#EC4899"]
  >>

\* processTimetableFile's outer catch
SampleActivityBlocks ==
  <<
    [title |-> <<"S","a","m","p","l","e"," ","A","c","t","i","v","i","t","y">>,
      description |-> <<"E","x","t","r","a","c","t","e","d"," ","f","r","o","m"," ","u","p","l","o","a","d","e","d"," ","f","i","l","e">>,
      startTime |-> <<"0","9",":","0","0">>, endTime |-> <<"1","0",":","0","0">>,
      dayOfWeek |-> "Monday", duration |-> 60, color |-> "#3B82F6"]
  >>

\* extractTimetableWithAI when every provider failed
SampleClassBlocks ==
  <<
    [title |-> <<"S","a","m","p","l","e"," ","C","l","a","s","s">>,
      description |-> <<"E","x","t","r","a","c","t","e","d"," ","f","r","o","m"," ","u","p","l","o","a","d","e","d"," ","f","i","l","e">>,
      startTime |-> <<"0","9",":","0","0">>, endTime |-> <<"1","0",":","0","0">>,
      dayOfWeek |-> "Monday", duration |-> 60, color |-> "#3B82F6"]
  >>

\* processTimetableFile's PDF text-extraction fallback
PdfDocumentBlocks ==
  <<
    [title |-> <<"P","D","F"," ","D","o","c","u","m","e","n","t">>,
      description |-> <<"P","l","e","a","s","e"," ","m","a","n","u","a","l","l","y"," ","a","d","d"," ","t","i","m","e","t","a","b","l","e"," ","e","n","t","r","i","e","s">>,
      startTime |-> <<"0","9",":","0","0">>, endTime |-> <<"1","0",":","0","0">>,
      dayOfWeek |-> "Monday", duration |-> 60, color |-> "#6B7280"]
  >>

StdRegistration(day) ==
    [title |-> <<"R","e","g","i","s","t","r","a","t","i","o","n"," ","a","n","d"," ","E","a","r","l","y"," ","M","o","r","n","i","n","g"," ","W","o","r","k">>,
     description |-> <<"D","a","i","l","y"," ","r","e","g","i","s","t","r","a","t","i","o","n"," ","a","n","d"," ","m","o","r","n","i","n","g"," ","a","c","t","i","v","i","t","i","e","s">>,
     startTime |-> <<"0","8",":","3","5">>, endTime |-> <<"0","8",":","5","0">>,
     dayOfWeek |-> day, duration |-> 15, color |-> "#ED8936"]

StdBreak(day) ==
    [title |-> <<"B","r","e","a","k">>,
     description |-> <<"M","o","r","n","i","n","g"," ","b","r","e","a","k"," ","t","i","m","e">>,
     startTime |-> <<"1","0",":","0","0">>, endTime |-> <<"1","0",":","1","5">>,
     dayOfWeek |-> day, duration |-> 15, color |-> "#A0AEC0"]

StdLunch(day) ==
    [title |-> <<"L","u","n","c","h">>,
     description |-> <<"L","u","n","c","h"," ","b","r","e","a","k">>,
     startTime |-> <<"1","2",":","0","0">>, endTime |-> <<"1","3",":","0","0">>,
     dayOfWeek |-> day, duration |-> 60, color |-> "#4A5568"]

StdStoryTime(day) ==
    [title |-> <<"S","t","o","r","y"," ","T","i","m","e">>,
     description |-> <<"E","n","d"," ","o","f"," ","d","a","y"," ","s","t","o","r","y"," ","s","e","s","s","i","o","n">>,
     startTime |-> <<"1","5",":","0","0">>, endTime |-> <<"1","5",":","1","5">>,
     dayOfWeek |-> day, duration |-> 15, color |-> "#718096"]

StdAssembly(day) ==
    [title |-> <<"A","s","s","e","m","b","l","y">>,
     description |-> <<"S","c","h","o","o","l"," ","a","s","s","e","m","b","l","y">>,
     startTime |-> <<"0","9",":","0","0">>, endTime |-> <<"0","9",":","1","5">>,
     dayOfWeek |-> day, duration |-> 15, color |-> "#FFD700"]

StdHandwriting(day) ==
    [title |-> <<"H","a","n","d","w","r","i","t","i","n","g">>,
     description |-> <<"H","a","n","d","w","r","i","t","i","n","g"," ","p","r","a","c","t","i","c","e">>,
     startTime |-> <<"1","4",":","3","0">>, endTime |-> <<"1","5",":","0","0">>,
     dayOfWeek |-> day, duration |-> 30, color |-> "#CBD5E0"]

StdMathsMeeting(day) ==
    [title |-> <<"M","a","t","h","s"," ","M","e","e","t","i","n","g">>,
     description |-> <<"M","a","t","h","s"," ","m","e","e","t","i","n","g"," ","a","n","d"," ","r","e","v","i","e","w">>,
     startTime |-> <<"1","0",":","1","5">>, endTime |-> <<"1","0",":","3","0">>,
     dayOfWeek |-> day, duration |-> 15, color |-> "#3B82F6"]

----------------------------------------------------------------------------
(* What an LLM provider can answer *)

\* One entry of the parsed "timeblocks" array.  A string field the JSON lacks
\* is the empty tuple and a missing duration is 0: the code reads every such
\* field through ||, which treats "", 0 and undefined alike.
\* blocks, schedule and activities are the nested arrays an entry may carry:
\* a missing member, an array, or a value that is truthy but no array (a
\* string such as "Morning", an object).
NoArray == [isArray |-> FALSE, truthy |-> FALSE, items |-> <<>>]

ArrayOf(items) == [isArray |-> TRUE, truthy |-> TRUE, items |-> items]

NotAnArray == [isArray |-> FALSE, truthy |-> TRUE, items |-> <<>>]

Entry(t, d, s, e, day, dur, col) ==
    [title |-> t, subject |-> <<>>, activity |-> <<>>, description |-> d,
     startTime |-> s, endTime |-> e, time |-> <<>>,
     dayOfWeek |-> day, day |-> "", duration |-> dur, color |-> col,
     blocks |-> NoArray, schedule |-> NoArray, activities |-> NoArray]

\* The text of a provider's answer, by what the parser can observe of it:
\*   empty  the text is ""
\*   brace  the cleaned text starts with "{"
\*   word   the cleaned text contains the word timeblocks
\*   json   what JSON.parse does with the cleaned text:
\*          "fail" (SyntaxError), "other" (a value whose timeblocks member is
\*          missing or no array) or "array" (timeblocks is an array)
Answer(em, b, w, j, es) ==
    [empty |-> em, brace |-> b, word |-> w, json |-> j, entries |-> es]

\* ""
AnswerEmpty == Answer(TRUE, FALSE, FALSE, "fail", <<>>)

\* prose without any JSON object: "I could not find a timetable."
AnswerProse == Answer(FALSE, FALSE, FALSE, "fail", <<>>)

\* {"timeblocks": [{"title": "Maths",}]}  (trailing comma)
AnswerBroken == Answer(FALSE, TRUE, TRUE, "fail", <<>>)

\* {"schedule": []}
AnswerNoKey == Answer(FALSE, TRUE, FALSE, "other", <<>>)

\* {"timeblocks": "none"}
AnswerNotArray == Answer(FALSE, TRUE, TRUE, "other", <<>>)

\* {"timeblocks": [{"title": "PE", "description": "Games", "startTime": "11:00",
\*   "endTime": "12:00", "dayOfWeek": "Tuesday", "duration": 60, "color": "#84CC16"}]}
AnswerValid ==
    Answer(FALSE, TRUE, TRUE, "array",
           << Entry(<<"P","E">>, <<"G","a","m","e","s">>,
                    <<"1","1",":","0","0">>, <<"1","2",":","0","0">>,
                    "Tuesday", 60, "#84CC16") >>)

AnswerList ==
    <<AnswerEmpty, AnswerProse, AnswerBroken, AnswerNoKey, AnswerNotArray,
      AnswerValid>>

Answers == {AnswerList[i] : i \in 1..Len(AnswerList)}

\* What a provider call can do: fail (network error, HTTP status, missing API
\* key, malformed envelope) or deliver a text.
CallFailed == [failed |-> TRUE, answer |-> AnswerEmpty]

CallOutcomes == {CallFailed} \cup {[failed |-> FALSE, answer |-> a] : a \in Answers}

----------------------------------------------------------------------------
(* Helpers of the response normalizer *)

\* a || b on strings: "" is falsy
OrStr(a, b) == IF a /= <<>> THEN a ELSE b

\* a || b on day names
OrDay(a, b) == IF a /= "" THEN a ELSE b

IsSpace(c) == c \in {" ", "\t", "\n"}

RECURSIVE TrimLeft(_)
TrimLeft(s) ==
    IF s /= <<>> /\ IsSpace(Head(s)) THEN TrimLeft(Tail(s)) ELSE s

RECURSIVE TrimRight(_)
TrimRight(s) ==
    IF s /= <<>> /\ IsSpace(s[Len(s)])
    THEN TrimRight(SubSeq(s, 1, Len(s) - 1))
    ELSE s

\* String.prototype.trim
Trim(s) == TrimRight(TrimLeft(s))

\* the first index of character c in s, 0 when absent
IndexOf(s, c) ==
    IF \E i \in 1..Len(s) : s[i] = c
    THEN CHOOSE i \in 1..Len(s) : s[i] = c /\ \A j \in 1..(i - 1) : s[j] /= c
    ELSE 0

\* const [start, end] = time.split('-'): the text before the first '-' and the
\* text between the first and the second '-' (the rest is dropped)
SplitStart(time) == SubSeq(time, 1, IndexOf(time, "-") - 1)

SplitEnd(time) ==
    LET rest == SubSeq(time, IndexOf(time, "-") + 1, Len(time))
    IN  IF IndexOf(rest, "-") = 0 THEN rest
        ELSE SubSeq(rest, 1, IndexOf(rest, "-") - 1)

Digits == <<"0","1","2","3","4","5","6","7","8","9">>

IsDigit(c) == \E i \in 1..Len(Digits) : Digits[i] = c

DigitVal(c) == (CHOOSE i \in 1..Len(Digits) : Digits[i] = c) - 1

\* Not-a-Number, as the result of a failed Date parse: a value no difference
\* of two clock times can take
NaN == -(24 * 60 * 2)

\* new Date(`2000-01-01 ${s}`).getTime(), in minutes after midnight: a clock
\* time H:MM or HH:MM of a day; every other text is an Invalid Date
ClockMinutes(s) ==
    LET c == IndexOf(s, ":")
    IN  IF /\ c \in {2, 3}
           /\ Len(s) = c + 2
           /\ \A i \in (1..Len(s)) \ {c} : IsDigit(s[i])
        THEN LET h == IF c = 2 THEN DigitVal(s[1])
                      ELSE 10 * DigitVal(s[1]) + DigitVal(s[2])
                 m == 10 * DigitVal(s[c + 1]) + DigitVal(s[c + 2])
             IN  IF h <= 23 /\ m <= 59 THEN 60 * h + m ELSE NaN
        ELSE NaN

\* normalized.replace(/\s*(AM|PM)/i, ''): the leftmost place where optional
\* white space is followed by am or pm in either case
IsAmPmAt(s, i) ==
    /\ i + 1 <= Len(s)
    /\ ToLowerCase(SubSeq(s, i, i + 1)) \in {<<"a","m">>, <<"p","m">>}

RECURSIVE SkipSpaces(_, _)
SkipSpaces(s, i) ==
    IF i <= Len(s) /\ IsSpace(s[i]) THEN SkipSpaces(s, i + 1) ELSE i

RemoveAmPm(s) ==
    LET starts == {k \in 1..Len(s) : IsAmPmAt(s, SkipSpaces(s, k))}
    IN  IF starts = {} THEN s
        ELSE LET k == CHOOSE x \in starts : \A y \in starts : x <= y
             IN  SubSeq(s, 1, k - 1) \o SubSeq(s, SkipSpaces(s, k) + 2, Len(s))

normalizeTime(time) ==
    LET t1 == Trim(time)
        t2 == IF Len(t1) = 4 /\ ~Includes(t1, <<":">>)
              THEN <<t1[1]>> \o <<":">> \o SubSeq(t1, 2, 4)
              ELSE t1
    IN  IF Includes(t2, <<"A","M">>) \/ Includes(t2, <<"P","M">>)
        THEN RemoveAmPm(t2)
        ELSE t2

\* HybridTimetableProcessor.calculateDuration (the same in both revisions)
calculateDuration(startTime, endTime) ==
    LET s == ClockMinutes(normalizeTime(startTime))
        e == ClockMinutes(normalizeTime(endTime))
    IN  IF s /= NaN /\ e /= NaN /\ e - s > 0 THEN e - s ELSE 60

\* the printable ASCII characters from code 32 on (the double quote, the
\* backslash and the backtick, which no modelled text holds, are spelled out)
Ascii ==
    <<" ","!","quote","#","$","%","&","'","(",")","*","+",",","-",".","/",
      "0","1","2","3","4","5","6","7","8","9",":",";","<","=",">","?",
      "@","A","B","C","D","E","F","G","H","I","J","K","L","M","N","O",
      "P","Q","R","S","T","U","V","W","X","Y","Z","[","backslash","]","^","_",
      "backtick","a","b","c","d","e","f","g","h","i","j","k","l","m","n","o",
      "p","q","r","s","t","u","v","w","x","y","z","{","|","}","~">>

\* String.prototype.charCodeAt of a one-character string
charCodeAt(c) == 31 + (CHOOSE i \in 1..Len(Ascii) : Ascii[i] = c)

\* hash = title.charCodeAt(i) + ((hash << 5) - hash), over the title.  The
\* 32-bit wrap-around of << lies beyond TLC's integers: on a title long enough
\* to wrap, TLC stops with an overflow error instead of computing another hash.
RECURSIVE titleHash(_, _)
titleHash(title, hash) ==
    IF title = <<>> THEN hash
    ELSE titleHash(Tail(title), charCodeAt(Head(title)) + ((hash * 32) - hash))

Abs(n) == IF n < 0 THEN -n ELSE n

\* subjectColors, in insertion order (Object.entries order)
subjectColors ==
  <<
    [subject |-> <<"m","a","t","h","s">>, color |-> "#3B82F6"],
    [subject |-> <<"m","a","t","h">>, color |-> "#3B82F6"],
    [subject |-> <<"m","a","t","h","e","m","a","t","i","c","s">>, color |-> "#3B82F6"],
    [subject |-> <<"e","n","g","l","i","s","h">>, color |-> "#10B981"],
    [subject |-> <<"l","a","n","g","u","a","g","e">>, color |-> "#10B981"],
    [subject |-> <<"l","i","t","e","r","a","t","u","r","e">>, color |-> "#10B981"],
    [subject |-> <<"s","c","i","e","n","c","e">>, color |-> "#F59E0B"],
    [subject |-> <<"p","h","y","s","i","c","s">>, color |-> "#F59E0B"],
    [subject |-> <<"c","h","e","m","i","s","t","r","y">>, color |-> "#F59E0B"],
    [subject |-> <<"b","i","o","l","o","g","y">>, color |-> "#F59E0B"],
    [subject |-> <<"h","i","s","t","o","r","y">>, color |-> "#8B5CF6"],
    [subject |-> <<"s","o","c","i","a","l">>, color |-> "#8B5CF6"],
    [subject |-> <<"g","e","o","g","r","a","p","h","y">>, color |-> "#8B5CF6"],
    [subject |-> <<"a","r","t">>, color |-> "#EC4899"],
    [subject |-> <<"d","r","a","w","i","n","g">>, color |-> "#EC4899"],
    [subject |-> <<"c","r","e","a","t","i","v","e">>, color |-> "#EC4899"],
    [subject |-> <<"m","u","s","i","c">>, color |-> "#06B6D4"],
    [subject |-> <<"s","i","n","g","i","n","g">>, color |-> "#06B6D4"],
    [subject |-> <<"i","n","s","t","r","u","m","e","n","t">>, color |-> "#06B6D4"],
    [subject |-> <<"p","e">>, color |-> "#84CC16"],
    [subject |-> <<"p","h","y","s","i","c","a","l">>, color |-> "#84CC16"],
    [subject |-> <<"s","p","o","r","t">>, color |-> "#84CC16"],
    [subject |-> <<"g","y","m">>, color |-> "#84CC16"],
    [subject |-> <<"c","o","m","p","u","t","i","n","g">>, color |-> "#6366F1"],
    [subject |-> <<"c","o","m","p","u","t","e","r">>, color |-> "#6366F1"],
    [subject |-> <<"t","e","c","h","n","o","l","o","g","y">>, color |-> "#6366F1"],
    [subject |-> <<"i","t">>, color |-> "#6366F1"],
    [subject |-> <<"r","e">>, color |-> "#F97316"],
    [subject |-> <<"r","e","l","i","g","i","o","u","s">>, color |-> "#F97316"],
    [subject |-> <<"r","e","l","i","g","i","o","n">>, color |-> "#F97316"],
    [subject |-> <<"p","h","s","e">>, color |-> "#10B981"],
    [subject |-> <<"p","s","h","e">>, color |-> "#10B981"],
    [subject |-> <<"p","e","r","s","o","n","a","l">>, color |-> "#10B981"],
    [subject |-> <<"r","w","i">>, color |-> "#EF4444"],
    [subject |-> <<"r","e","a","d","i","n","g">>, color |-> "#EF4444"],
    [subject |-> <<"w","r","i","t","i","n","g">>, color |-> "#EF4444"],
    [subject |-> <<"a","s","s","e","m","b","l","y">>, color |-> "#FFD700"],
    [subject |-> <<"c","e","l","e","b","r","a","t","i","o","n">>, color |-> "#FFD700"],
    [subject |-> <<"i","n"," ","c","l","a","s","s">>, color |-> "#FFD700"],
    [subject |-> <<"b","r","e","a","k">>, color |-> "#A0AEC0"],
    [subject |-> <<"m","o","r","n","i","n","g"," ","r","e","c","e","s","s">>, color |-> "#A0AEC0"],
    [subject |-> <<"s","n","a","c","k"," ","t","i","m","e">>, color |-> "#A0AEC0"],
    [subject |-> <<"o","u","t","s","i","d","e"," ","p","l","a","y">>, color |-> "#A0AEC0"],
    [subject |-> <<"l","u","n","c","h">>, color |-> "#4A5568"],
    [subject |-> <<"l","u","n","c","h"," ","b","r","e","a","k">>, color |-> "#4A5568"],
    [subject |-> <<"h","a","n","d","w","r","i","t","i","n","g">>, color |-> "#CBD5E0"],
    [subject |-> <<"s","t","o","r","y","t","i","m","e">>, color |-> "#718096"],
    [subject |-> <<"s","t","o","r","y"," ","t","i","m","e">>, color |-> "#718096"],
    [subject |-> <<"e","n","d"," ","o","f"," ","d","a","y"," ","s","t","o","r","y">>, color |-> "#718096"],
    [subject |-> <<"c","a","t","c","h"," ","u","p">>, color |-> "#ECC94B"],
    [subject |-> <<"r","e","g","i","s","t","r","a","t","i","o","n">>, color |-> "#ED8936"],
    [subject |-> <<"e","a","r","l","y"," ","m","o","r","n","i","n","g"," ","w","o","r","k">>, color |-> "#ED8936"],
    [subject |-> <<"s","t","u","d","e","n","t","s"," ","a","r","e"," ","a","l","l","o","w","e","d"," ","i","n","s","i","d","e">>, color |-> "#ED8936"],
    [subject |-> <<"m","o","r","n","i","n","g"," ","w","o","r","k">>, color |-> "#ED8936"],
    [subject |-> <<"t","e","a","c","h","e","r">>, color |-> "#9F7AEA"],
    [subject |-> <<"c","l","a","s","s">>, color |-> "#9F7AEA"],
    [subject |-> <<"t","e","r","m">>, color |-> "#9F7AEA"],
    [subject |-> <<"s","c","h","o","o","l">>, color |-> "#9F7AEA"]
  >>

\* the palette of the hash fallback
hashColors ==
    <<"#3B82F6", "#EF4444", "#10B981", "#F59E0B", "#8B5CF6", "#06B6D4", "#84CC16", "#F97316", "#EC4899", "#6366F1">>

\* HybridTimetableProcessor.getDefaultColor (the same in both revisions)
getDefaultColor(title) ==
    LET lowerTitle == ToLowerCase(title)
        hits == {i \in 1..Len(subjectColors) :
                    Includes(lowerTitle, subjectColors[i].subject)}
    IN  IF hits /= {}
        THEN subjectColors[CHOOSE i \in hits : \A j \in hits : i <= j].color
        ELSE hashColors[(Abs(titleHash(title, 0)) % Len(hashColors)) + 1]

\* decimal digits of a natural number, as `${n}` prints it
RECURSIVE Decimal(_)
Decimal(n) ==
    IF n < 10 THEN <<Digits[n + 1]>>
    ELSE Decimal(n \div 10) \o <<Digits[(n % 10) + 1]>>

ActivityWord == <<"A","c","t","i","v","i","t","y"," ">>

\* block.time && typeof block.time === 'string' && block.time.includes('-')
HasTimeRange(e) == e.time /= <<>> /\ Includes(e.time, <<"-">>)

\* the object built for a nested entry (index and nestedIndex count from 0)
NestedBlock(n, index, nestedIndex, dayOfWeek) ==
    LET nestedTitle == OrStr(n.subject, OrStr(n.title, OrStr(n.activity,
                          ActivityWord \o Decimal(index + 1) \o <<".">>
                              \o Decimal(nestedIndex + 1))))
        nestedStartTime == IF HasTimeRange(n) THEN Trim(SplitStart(n.time))
                           ELSE OrStr(n.startTime, <<"0","9",":","0","0">>)
        nestedEndTime == IF HasTimeRange(n) THEN Trim(SplitEnd(n.time))
                         ELSE OrStr(n.endTime, <<"1","0",":","0","0">>)
    IN  [title |-> nestedTitle,
         description |-> n.description,
         startTime |-> nestedStartTime,
         endTime |-> nestedEndTime,
         dayOfWeek |-> dayOfWeek,
         duration |-> IF n.duration /= 0 THEN n.duration
                      ELSE calculateDuration(nestedStartTime, nestedEndTime),
         color |-> IF n.color /= "" THEN n.color ELSE getDefaultColor(nestedTitle)]

\* (block.blocks && Array.isArray(block.blocks)) || ... schedule ... (|| ...
\* activities in the RAG revision)
HasNested(v, e) ==
    \/ e.blocks.isArray
    \/ e.schedule.isArray
    \/ v = "rag" /\ e.activities.isArray

\* nestedArray = block.blocks || block.schedule (|| block.activities in the
\* RAG revision): the first member that is truthy, an array or not
NestedOf(v, e) ==
    IF e.blocks.truthy THEN e.blocks
    ELSE IF v = "first" \/ e.schedule.truthy THEN e.schedule
    ELSE e.activities

\* nestedArray.map(...) on a value that is no array: TypeError
EntryThrows(v, e) == HasNested(v, e) /\ ~NestedOf(v, e).isArray

\* a callback that treats a top-level entry as the nested entries are treated
ProcessEntryAsNested(v, e, index) ==
    << NestedBlock(e, index, 0, OrDay(e.dayOfWeek, OrDay(e.day, "Monday"))) >>

\* the callback of parsed.timeblocks.map / flatMap: the blocks one top-level
\* entry contributes (index counts from 0)
ProcessEntry(v, e, index) ==
    LET title == OrStr(e.title, OrStr(e.subject, OrStr(e.activity,
                          ActivityWord \o Decimal(index + 1))))
        startTime == IF HasTimeRange(e) THEN Trim(SplitStart(e.time))
                     ELSE OrStr(e.startTime, <<"0","9",":","0","0">>)
        endTime == IF HasTimeRange(e) THEN Trim(SplitEnd(e.time))
                   ELSE OrStr(e.endTime, <<"1","0",":","0","0">>)
        dayOfWeek == OrDay(e.dayOfWeek, OrDay(e.day, "Monday"))
        nested == NestedOf(v, e)
    IN  IF HasNested(v, e)
        THEN Tuple([k \in 1..Len(nested.items) |->
                       NestedBlock(nested.items[k], index, k - 1, dayOfWeek)])
        ELSE << [title |-> title,
                 description |-> e.description,
                 startTime |-> startTime,
                 endTime |-> endTime,
                 dayOfWeek |-> dayOfWeek,
                 duration |-> IF e.duration /= 0 THEN e.duration
                              ELSE calculateDuration(startTime, endTime),
                 color |-> IF e.color /= "" THEN e.color
                           ELSE getDefaultColor(title)] >>

\* the callback throws on one of the entries
EntriesThrow(v, entries) ==
    \E i \in 1..Len(entries) : EntryThrows(v, entries[i])

\* Array.prototype.flat over the mapped entries
RECURSIVE ProcessEntries(_, _, _)
ProcessEntries(v, entries, index) ==
    IF index >= Len(entries) THEN <<>>
    ELSE ProcessEntry(v, entries[index + 1], index)
             \o ProcessEntries(v, entries, index + 1)

WeekDays == <<"Monday", "Tuesday", "Wednesday", "Thursday", "Friday">>

AssemblyDays == <<"Monday", "Wednesday", "Friday">>

HandwritingDays == <<"Tuesday", "Thursday">>

MathsMeetingDays == <<"Friday">>

\* the standard block of one kind on one day
StdBlock(kind, day) ==
    CASE kind = "Registration" -> StdRegistration(day)
      [] kind = "Break" -> StdBreak(day)
      [] kind = "Lunch" -> StdLunch(day)
      [] kind = "StoryTime" -> StdStoryTime(day)
      [] kind = "Assembly" -> StdAssembly(day)
      [] kind = "Handwriting" -> StdHandwriting(day)
      [] kind = "MathsMeeting" -> StdMathsMeeting(day)

\* days.forEach(day => standardBlocks.push({...})) for one kind of block
OnDays(days, kind) == Tuple([i \in 1..Len(days) |-> StdBlock(kind, days[i])])

\* HybridTimetableProcessor.generateStandardBlocks
generateStandardBlocks ==
    OnDays(WeekDays, "Registration") \o OnDays(WeekDays, "Break")
        \o OnDays(WeekDays, "Lunch") \o OnDays(WeekDays, "StoryTime")
        \o OnDays(AssemblyDays, "Assembly")
        \o OnDays(HandwritingDays, "Handwriting")
        \o OnDays(MathsMeetingDays, "MathsMeeting")

\* shouldAddBlock of generateConditionalStandardBlocks
shouldAddBlock(existingBlocks, blockTitle) ==
    ~ \E i \in 1..Len(existingBlocks) :
          LET title == ToLowerCase(existingBlocks[i].title)
          IN  \/ Includes(title, ToLowerCase(blockTitle))
              \/ Includes(ToLowerCase(blockTitle), title)

\* HybridTimetableProcessor.generateConditionalStandardBlocks
generateConditionalStandardBlocks(existingBlocks) ==
    LET add(t) == shouldAddBlock(existingBlocks, t)
    IN  (IF add(<<"R","e","g","i","s","t","r","a","t","i","o","n">>)
            \/ add(<<"E","a","r","l","y"," ","M","o","r","n","i","n","g">>)
         THEN OnDays(WeekDays, "Registration") ELSE <<>>)
        \o (IF add(<<"B","r","e","a","k">>) \/ add(<<"R","e","c","e","s","s">>)
            THEN OnDays(WeekDays, "Break") ELSE <<>>)
        \o (IF add(<<"L","u","n","c","h">>)
            THEN OnDays(WeekDays, "Lunch") ELSE <<>>)
        \o (IF add(<<"S","t","o","r","y"," ","T","i","m","e">>)
               \/ add(<<"S","t","o","r","y","t","i","m","e">>)
            THEN OnDays(WeekDays, "StoryTime") ELSE <<>>)
        \o (IF add(<<"A","s","s","e","m","b","l","y">>)
            THEN OnDays(AssemblyDays, "Assembly") ELSE <<>>)
        \o (IF add(<<"H","a","n","d","w","r","i","t","i","n","g">>)
            THEN OnDays(HandwritingDays, "Handwriting") ELSE <<>>)
        \o (IF add(<<"M","a","t","h","s"," ","M","e","e","t","i","n","g">>)
               \/ add(<<"M","a","t","h"," ","M","e","e","t","i","n","g">>)
            THEN OnDays(MathsMeetingDays, "MathsMeeting") ELSE <<>>)

----------------------------------------------------------------------------
(* parseJSONResponse: from the response text to the text handed to JSON.parse *)

\* String.prototype.endsWith
EndsWith(s, p) ==
    /\ Len(p) <= Len(s)
    /\ \A i \in 1..Len(p) : s[Len(s) - Len(p) + i] = p[i]

\* ``` (the backtick is spelled out, as in Ascii)
Fence == <<"backtick", "backtick", "backtick">>

JsonFence == Fence \o <<"j", "s", "o", "n">>

\* jsonContent.replace(/^```json\s*/, '') and .replace(/^```\s*/, '') on a
\* text that starts with the fence
StripOpeningFence(s, fence) == TrimLeft(SubSeq(s, Len(fence) + 1, Len(s)))

\* jsonContent.replace(/\s*```$/, '')
StripClosingFence(s) ==
    IF EndsWith(s, Fence) THEN TrimRight(SubSeq(s, 1, Len(s) - Len(Fence)))
    ELSE s

\* "Remove any markdown formatting"
StripFences(s) ==
    IF StartsWith(s, JsonFence)
    THEN StripClosingFence(StripOpeningFence(s, JsonFence))
    ELSE IF StartsWith(s, Fence)
    THEN StripClosingFence(StripOpeningFence(s, Fence))
    ELSE s

\* the last index of character c in s, 0 when absent
LastIndexOf(s, c) ==
    IF \E i \in 1..Len(s) : s[i] = c
    THEN CHOOSE i \in 1..Len(s) : s[i] = c /\ \A j \in (i + 1)..Len(s) : s[j] /= c
    ELSE 0

\* jsonContent.match(/\{[\s\S]*\}/): [\s\S]* is greedy, so the match runs from
\* the first "{" to the last "}" of the text; without a match the text stays
MatchObject(s) ==
    IF IndexOf(s, "{") > 0 /\ LastIndexOf(s, "}") > IndexOf(s, "{")
    THEN SubSeq(s, IndexOf(s, "{"), LastIndexOf(s, "}"))
    ELSE s

\* the text parseJSONResponse hands to JSON.parse
CleanedJSON(response) == MatchObject(StripFences(Trim(response)))

\* extractKeywords: educationalTerms
educationalTerms ==
  <<
    <<"m","a","t","h","s">>,
    <<"m","a","t","h","e","m","a","t","i","c","s">>,
    <<"e","n","g","l","i","s","h">>,
    <<"l","i","t","e","r","a","c","y">>,
    <<"r","e","a","d","i","n","g">>,
    <<"w","r","i","t","i","n","g">>,
    <<"p","h","o","n","i","c","s">>,
    <<"s","c","i","e","n","c","e">>,
    <<"h","i","s","t","o","r","y">>,
    <<"g","e","o","g","r","a","p","h","y">>,
    <<"a","r","t">>,
    <<"m","u","s","i","c">>,
    <<"p","e">>,
    <<"p","h","y","s","i","c","a","l">>,
    <<"e","d","u","c","a","t","i","o","n">>,
    <<"a","s","s","e","m","b","l","y">>,
    <<"b","r","e","a","k">>,
    <<"l","u","n","c","h">>,
    <<"r","e","g","i","s","t","r","a","t","i","o","n">>,
    <<"s","t","o","r","y">>,
    <<"h","a","n","d","w","r","i","t","i","n","g">>,
    <<"r","w","i">>,
    <<"c","o","m","p","r","e","h","e","n","s","i","o","n">>,
    <<"l","i","b","r","a","r","y">>,
    <<"c","o","m","p","u","t","i","n","g">>,
    <<"r","e">>,
    <<"r","e","l","i","g","i","o","u","s">>,
    <<"p","h","s","e">>,
    <<"p","s","h","e">>,
    <<"y","o","g","a">>,
    <<"m","i","n","d","f","u","l","n","e","s","s">>,
    <<"c","a","r","p","e","t">>,
    <<"j","i","g","s","a","w">>,
    <<"c","o","n","t","i","n","u","o","u","s">>,
    <<"p","r","o","v","i","s","i","o","n">>,
    <<"s","n","a","c","k">>,
    <<"p","l","a","y">>,
    <<"o","u","t","s","i","d","e">>,
    <<"i","n","d","o","o","r">>,
    <<"w","o","r","k","s","h","o","p">>,
    <<"m","e","e","t","i","n","g">>,
    <<"c","o","n">>,
    <<"c","o","n","s","o","l","i","d","a","t","i","o","n">>
  >>

\* extractKeywords: subjectKeywords, in insertion order
subjectKeywords ==
  <<
    [subject |-> <<"m","a","t","h","s">>,
     terms |-> << <<"n","u","m","b","e","r">>, <<"c","o","u","n","t","i","n","g">>, <<"a","d","d","i","t","i","o","n">>, <<"s","u","b","t","r","a","c","t","i","o","n">>, <<"m","u","l","t","i","p","l","i","c","a","t","i","o","n">>, <<"d","i","v","i","s","i","o","n">>, <<"p","r","o","b","l","e","m">>, <<"s","o","l","v","i","n","g">> >>],
    [subject |-> <<"e","n","g","l","i","s","h">>,
     terms |-> << <<"r","e","a","d","i","n","g">>, <<"w","r","i","t","i","n","g">>, <<"p","h","o","n","i","c","s">>, <<"c","o","m","p","r","e","h","e","n","s","i","o","n">>, <<"l","i","t","e","r","a","c","y">>, <<"s","t","o","r","y">>, <<"w","o","r","d">>, <<"s","p","e","l","l","i","n","g">> >>],
    [subject |-> <<"s","c","i","e","n","c","e">>,
     terms |-> << <<"e","x","p","e","r","i","m","e","n","t">>, <<"i","n","q","u","i","r","y">>, <<"i","n","v","e","s","t","i","g","a","t","i","o","n">>, <<"o","b","s","e","r","v","a","t","i","o","n">>, <<"h","y","p","o","t","h","e","s","i","s">>, <<"d","i","s","c","o","v","e","r","y">> >>],
    [subject |-> <<"a","r","t">>,
     terms |-> << <<"c","r","e","a","t","i","v","e">>, <<"d","r","a","w","i","n","g">>, <<"p","a","i","n","t","i","n","g">>, <<"c","r","a","f","t">>, <<"d","e","s","i","g","n">>, <<"a","r","t","i","s","t","i","c">> >>],
    [subject |-> <<"m","u","s","i","c">>,
     terms |-> << <<"s","i","n","g","i","n","g">>, <<"m","u","s","i","c","a","l">>, <<"i","n","s","t","r","u","m","e","n","t">>, <<"r","h","y","t","h","m">>, <<"m","e","l","o","d","y">>, <<"p","e","r","f","o","r","m","a","n","c","e">> >>],
    [subject |-> <<"p","e">>,
     terms |-> << <<"p","h","y","s","i","c","a","l">>, <<"s","p","o","r","t">>, <<"e","x","e","r","c","i","s","e">>, <<"f","i","t","n","e","s","s">>, <<"m","o","v","e","m","e","n","t">>, <<"o","u","t","d","o","o","r">>, <<"p","l","a","y">> >>],
    [subject |-> <<"a","s","s","e","m","b","l","y">>,
     terms |-> << <<"g","a","t","h","e","r","i","n","g">>, <<"a","n","n","o","u","n","c","e","m","e","n","t">>, <<"p","r","e","s","e","n","t","a","t","i","o","n">>, <<"c","e","l","e","b","r","a","t","i","o","n">>, <<"s","i","n","g","i","n","g">> >>],
    [subject |-> <<"b","r","e","a","k">>,
     terms |-> << <<"s","n","a","c","k">>, <<"o","u","t","d","o","o","r">>, <<"p","l","a","y">>, <<"s","o","c","i","a","l">>, <<"r","e","s","t">>, <<"r","e","f","r","e","s","h","m","e","n","t">> >>],
    [subject |-> <<"l","u","n","c","h">>,
     terms |-> << <<"m","e","a","l">>, <<"e","a","t","i","n","g">>, <<"s","o","c","i","a","l">>, <<"b","r","e","a","k">>, <<"n","u","t","r","i","t","i","o","n">> >>]
  >>

\* extractKeywords: timeKeywords
timeKeywords ==
  <<
    <<"m","o","r","n","i","n","g">>,
    <<"a","f","t","e","r","n","o","o","n">>,
    <<"e","a","r","l","y">>,
    <<"l","a","t","e">>,
    <<"s","t","a","r","t">>,
    <<"e","n","d">>,
    <<"b","e","g","i","n","n","i","n","g">>,
    <<"f","i","n","i","s","h">>
  >>

\* categorizeSubject: subjectMap, in insertion order
subjectMap ==
  <<
    [keyword |-> <<"m","a","t","h","s">>, subject |-> <<"M","a","t","h","e","m","a","t","i","c","s">>],
    [keyword |-> <<"m","a","t","h","e","m","a","t","i","c","s">>, subject |-> <<"M","a","t","h","e","m","a","t","i","c","s">>],
    [keyword |-> <<"m","a","t","h">>, subject |-> <<"M","a","t","h","e","m","a","t","i","c","s">>],
    [keyword |-> <<"e","n","g","l","i","s","h">>, subject |-> <<"E","n","g","l","i","s","h">>],
    [keyword |-> <<"l","i","t","e","r","a","c","y">>, subject |-> <<"E","n","g","l","i","s","h">>],
    [keyword |-> <<"r","e","a","d","i","n","g">>, subject |-> <<"E","n","g","l","i","s","h">>],
    [keyword |-> <<"w","r","i","t","i","n","g">>, subject |-> <<"E","n","g","l","i","s","h">>],
    [keyword |-> <<"p","h","o","n","i","c","s">>, subject |-> <<"E","n","g","l","i","s","h">>],
    [keyword |-> <<"s","c","i","e","n","c","e">>, subject |-> <<"S","c","i","e","n","c","e">>],
    [keyword |-> <<"h","i","s","t","o","r","y">>, subject |-> <<"H","i","s","t","o","r","y">>],
    [keyword |-> <<"g","e","o","g","r","a","p","h","y">>, subject |-> <<"G","e","o","g","r","a","p","h","y">>],
    [keyword |-> <<"a","r","t">>, subject |-> <<"A","r","t">>],
    [keyword |-> <<"m","u","s","i","c">>, subject |-> <<"M","u","s","i","c">>],
    [keyword |-> <<"p","e">>, subject |-> <<"P","h","y","s","i","c","a","l"," ","E","d","u","c","a","t","i","o","n">>],
    [keyword |-> <<"p","h","y","s","i","c","a","l">>, subject |-> <<"P","h","y","s","i","c","a","l"," ","E","d","u","c","a","t","i","o","n">>],
    [keyword |-> <<"a","s","s","e","m","b","l","y">>, subject |-> <<"A","s","s","e","m","b","l","y">>],
    [keyword |-> <<"b","r","e","a","k">>, subject |-> <<"B","r","e","a","k">>],
    [keyword |-> <<"l","u","n","c","h">>, subject |-> <<"L","u","n","c","h">>],
    [keyword |-> <<"r","e","g","i","s","t","r","a","t","i","o","n">>, subject |-> <<"A","d","m","i","n","i","s","t","r","a","t","i","o","n">>],
    [keyword |-> <<"s","t","o","r","y">>, subject |-> <<"E","n","g","l","i","s","h">>],
    [keyword |-> <<"h","a","n","d","w","r","i","t","i","n","g">>, subject |-> <<"E","n","g","l","i","s","h">>],
    [keyword |-> <<"r","w","i">>, subject |-> <<"E","n","g","l","i","s","h">>],
    [keyword |-> <<"c","o","m","p","r","e","h","e","n","s","i","o","n">>, subject |-> <<"E","n","g","l","i","s","h">>],
    [keyword |-> <<"l","i","b","r","a","r","y">>, subject |-> <<"E","n","g","l","i","s","h">>],
    [keyword |-> <<"c","o","m","p","u","t","i","n","g">>, subject |-> <<"C","o","m","p","u","t","i","n","g">>],
    [keyword |-> <<"r","e">>, subject |-> <<"R","e","l","i","g","i","o","u","s"," ","E","d","u","c","a","t","i","o","n">>],
    [keyword |-> <<"r","e","l","i","g","i","o","u","s">>, subject |-> <<"R","e","l","i","g","i","o","u","s"," ","E","d","u","c","a","t","i","o","n">>],
    [keyword |-> <<"p","h","s","e">>, subject |-> <<"P","S","H","E">>],
    [keyword |-> <<"p","s","h","e">>, subject |-> <<"P","S","H","E">>]
  >>

\* categorizeActivityType: the cascade of tests, in order
activityTypes ==
  <<
    [terms |-> << <<"l","e","s","s","o","n">>, <<"c","l","a","s","s">>, <<"i","n","s","t","r","u","c","t","i","o","n">> >>,
     type |-> <<"L","e","s","s","o","n">>],
    [terms |-> << <<"b","r","e","a","k">>, <<"r","e","c","e","s","s">>, <<"s","n","a","c","k">> >>,
     type |-> <<"B","r","e","a","k">>],
    [terms |-> << <<"l","u","n","c","h">>, <<"m","e","a","l">> >>,
     type |-> <<"L","u","n","c","h">>],
    [terms |-> << <<"a","s","s","e","m","b","l","y">>, <<"g","a","t","h","e","r","i","n","g">> >>,
     type |-> <<"A","s","s","e","m","b","l","y">>],
    [terms |-> << <<"r","e","g","i","s","t","r","a","t","i","o","n">>, <<"a","t","t","e","n","d","a","n","c","e">> >>,
     type |-> <<"A","d","m","i","n","i","s","t","r","a","t","i","o","n">>],
    [terms |-> << <<"s","t","o","r","y">>, <<"r","e","a","d"," ","a","l","o","u","d">> >>,
     type |-> <<"S","t","o","r","y"," ","T","i","m","e">>],
    [terms |-> << <<"w","o","r","k","s","h","o","p">>, <<"s","t","a","t","i","o","n">> >>,
     type |-> <<"W","o","r","k","s","h","o","p">>],
    [terms |-> << <<"m","e","e","t","i","n","g">>, <<"d","i","s","c","u","s","s","i","o","n">> >>,
     type |-> <<"M","e","e","t","i","n","g">>],
    [terms |-> << <<"p","l","a","y">>, <<"o","u","t","d","o","o","r">>, <<"p","h","y","s","i","c","a","l">> >>,
     type |-> <<"P","h","y","s","i","c","a","l"," ","A","c","t","i","v","i","t","y">>]
  >>

\* the terms of a list that the text contains, in the list's order
RECURSIVE TermsIn(_, _)
TermsIn(text, terms) ==
    IF terms = <<>> THEN <<>>
    ELSE (IF Includes(text, Head(terms)) THEN <<Head(terms)>> ELSE <<>>)
             \o TermsIn(text, Tail(terms))

\* the subject-specific keywords of every subject the text names
RECURSIVE SubjectTermsIn(_, _)
SubjectTermsIn(text, subjects) ==
    IF subjects = <<>> THEN <<>>
    ELSE (IF Includes(text, Head(subjects).subject)
          THEN TermsIn(text, Head(subjects).terms) ELSE <<>>)
             \o SubjectTermsIn(text, Tail(subjects))

\* [...new Set(keywords)]: the first occurrence of each keyword, in order
RECURSIVE Unique(_)
Unique(s) ==
    IF s = <<>> THEN <<>>
    ELSE LET front == Unique(SubSeq(s, 1, Len(s) - 1))
         IN  IF s[Len(s)] \in Range(front) THEN front
             ELSE Append(front, s[Len(s)])

\* `${title} ${description}`.toLowerCase()
BlockText(title, description) == ToLowerCase(title \o <<" ">> \o description)

\* HybridTimetableProcessor.extractKeywords
extractKeywords(title, description) ==
    LET text == BlockText(title, description)
    IN  Unique(TermsIn(text, educationalTerms)
                   \o SubjectTermsIn(text, subjectKeywords)
                   \o TermsIn(text, timeKeywords))

\* HybridTimetableProcessor.categorizeSubject
categorizeSubject(title, description) ==
    LET text == BlockText(title, description)
        hits == {i \in 1..Len(subjectMap) : Includes(text, subjectMap[i].keyword)}
    IN  IF hits /= {}
        THEN subjectMap[CHOOSE i \in hits : \A j \in hits : i <= j].subject
        ELSE <<"G","e","n","e","r","a","l">>

\* HybridTimetableProcessor.categorizeActivityType
categorizeActivityType(title, description) ==
    LET text == BlockText(title, description)
        hits == {i \in 1..Len(activityTypes) :
                    \E k \in 1..Len(activityTypes[i].terms) :
                        Includes(text, activityTypes[i].terms[k])}
    IN  IF hits /= {}
        THEN activityTypes[CHOOSE i \in hits : \A j \in hits : i <= j].type
        ELSE <<"A","c","t","i","v","i","t","y">>

\* { ...block, keywords, subject, activityType }
Enhance(block) ==
    [title |-> block.title, description |-> block.description,
     startTime |-> block.startTime, endTime |-> block.endTime,
     dayOfWeek |-> block.dayOfWeek, duration |-> block.duration,
     color |-> block.color,
     keywords |-> extractKeywords(block.title, block.description),
     subject |-> categorizeSubject(block.title, block.description),
     activityType |-> categorizeActivityType(block.title, block.description)]

\* knowledgeBase.get(key)!.push(block), after knowledgeBase.set(key, []) for a
\* new key: the Map keeps its keys in insertion order
RECURSIVE KbPush(_, _, _)
KbPush(kb, key, block) ==
    IF kb = <<>> THEN << [key |-> key, blocks |-> <<block>>] >>
    ELSE IF Head(kb).key = key
    THEN << [Head(kb) EXCEPT !.blocks = Append(@, block)] >> \o Tail(kb)
    ELSE << Head(kb) >> \o KbPush(Tail(kb), key, block)

RECURSIVE KbPushAll(_, _, _)
KbPushAll(kb, keys, block) ==
    IF keys = <<>> THEN kb
    ELSE KbPushAll(KbPush(kb, Head(keys), block), Tail(keys), block)

\* one turn of buildKnowledgeBase's loop: the block is filed under each of its
\* keywords, under its subject and under its activity type
KbIndexBlock(kb, enhancedBlock) ==
    KbPush(KbPush(KbPushAll(kb, enhancedBlock.keywords, enhancedBlock),
                  enhancedBlock.subject, enhancedBlock),
           enhancedBlock.activityType, enhancedBlock)

\* HybridTimetableProcessor.buildKnowledgeBase.  The Map after each turn is
\* bound as a value (the one element of a set) before the next turn starts.
RECURSIVE buildKnowledgeBase(_, _)
buildKnowledgeBase(kb, blocks) ==
    IF blocks = <<>> THEN kb
    ELSE CHOOSE built \in
             {buildKnowledgeBase(next, Tail(blocks)) :
                  next \in {KbIndexBlock(kb, Enhance(Head(blocks)))}} : TRUE

\* HybridTimetableProcessor.getEnhancedTimeblocks: the knowledge base after the
\* call and the blocks it returns
getEnhancedTimeblocks(kb, blocks) ==
    [kb |-> IF Len(kb) = 0 THEN buildKnowledgeBase(kb, blocks) ELSE kb,
     timeblocks |-> Tuple([i \in 1..Len(blocks) |-> Enhance(blocks[i])])]

\* the blocks of the Map's entries, entry after entry
RECURSIVE KbBlocks(_)
KbBlocks(kb) ==
    IF kb = <<>> THEN <<>> ELSE Head(kb).blocks \o KbBlocks(Tail(kb))

\* block.id || `${block.title}-${block.startTime}-${block.dayOfWeek}`: the
\* blocks of the knowledge base carry no id
BlockId(block) == <<block.title, block.startTime, block.dayOfWeek>>

\* limit: number = 10
DefaultLimit ==
    10

\* title or description holds the query
ExactMatch(block, queryLower) ==
    \/ Includes(ToLowerCase(block.title), queryLower)
    \/ Includes(ToLowerCase(block.description), queryLower)

\* a search that returns its results in the order it found them
searchKnowledgeBaseUnsorted(kb, query, limit) ==
    LET queryLower == ToLowerCase(query)
        byKeyword == KbBlocks(SelectSeq(kb, LAMBDA entry :
                         \/ Includes(queryLower, entry.key)
                         \/ Includes(entry.key, queryLower)))
        byText == SelectSeq(KbBlocks(kb), LAMBDA b : ExactMatch(b, queryLower))
        found == byKeyword \o byText
        kept == SelectSeq(Tuple([i \in 1..Len(found) |-> i]), LAMBDA i :
                    \A j \in 1..(i - 1) : BlockId(found[j]) /= BlockId(found[i]))
        results == Tuple([k \in 1..Len(kept) |-> found[kept[k]]])
    IN  SubSeq(results, 1, IF Len(results) < limit THEN Len(results) ELSE limit)

\* HybridTimetableProcessor.searchKnowledgeBase
searchKnowledgeBase(kb, query, limit) ==
    LET queryLower == ToLowerCase(query)
        byKeyword == KbBlocks(SelectSeq(kb, LAMBDA entry :
                         \/ Includes(queryLower, entry.key)
                         \/ Includes(entry.key, queryLower)))
        byText == SelectSeq(KbBlocks(kb), LAMBDA b : ExactMatch(b, queryLower))
        found == byKeyword \o byText
        kept == SelectSeq(Tuple([i \in 1..Len(found) |-> i]), LAMBDA i :
                    \A j \in 1..(i - 1) : BlockId(found[j]) /= BlockId(found[i]))
        results == Tuple([k \in 1..Len(kept) |-> found[kept[k]]])
        sorted == SelectSeq(results, LAMBDA b : ExactMatch(b, queryLower))
                      \o SelectSeq(results, LAMBDA b : ~ExactMatch(b, queryLower))
    IN  SubSeq(sorted, 1, IF Len(sorted) < limit THEN Len(sorted) ELSE limit)

----------------------------------------------------------------------------
(* HybridTimetableProcessor: the pure parts of the pipeline *)

Versions == {"first", "rag"}

Routes == {"plain", "logged"}

\* a providers list in another order
ProvidersClaudeFirst(v) ==
    IF v = "first" THEN <<"Claude", "OpenAI", "Gemini">>
    ELSE <<"Gemini", "Claude">>

\* the providers list of extractTimetableWithLLM
Providers(v) ==
    IF v = "first" THEN <<"OpenAI", "Claude", "Gemini">>
    ELSE <<"Claude", "Gemini">>

\* the providers list of extractTimetableWithAI (timetable-processor)
AiProviders == <<"OpenAI", "Claude", "Gemini">>

\* a fallback without any block
getFallbackDataEmpty(v) == [timeblocks |-> <<>>]

\* HybridTimetableProcessor.getFallbackData
getFallbackData(v) ==
    [timeblocks |-> IF v = "first" THEN FirstFallbackBlocks ELSE RagFallbackBlocks]

\* HybridTimetableProcessor.parseJSONResponse on an answer, with the knowledge
\* base as it stands: whether it threw, the knowledge base afterwards, and the
\* data it returned
parseJSONResponse(v, kb, a) ==
    IF v = "first"
    THEN IF ~a.brace \/ ~a.word
         THEN [threw |-> FALSE, kb |-> kb, data |-> getFallbackData(v)]
         ELSE IF a.json = "fail"
         THEN [threw |-> FALSE, kb |-> kb, data |-> getFallbackData(v)]
         ELSE IF a.json /= "array" \/ EntriesThrow(v, a.entries)
         THEN [threw |-> TRUE, kb |-> kb, data |-> [timeblocks |-> <<>>]]
         ELSE LET processedTimeblocks == ProcessEntries(v, a.entries, 0)
                  standardBlocks ==
                      generateConditionalStandardBlocks(processedTimeblocks)
              IN  [threw |-> FALSE, kb |-> kb,
                   data |-> [timeblocks |-> processedTimeblocks \o standardBlocks]]
    ELSE IF a.json = "fail"
         THEN [threw |-> FALSE, kb |-> kb, data |-> [timeblocks |-> <<>>]]
         ELSE IF a.json /= "array" \/ EntriesThrow(v, a.entries)
         THEN [threw |-> TRUE, kb |-> kb, data |-> [timeblocks |-> <<>>]]
         ELSE LET processedTimeblocks == ProcessEntries(v, a.entries, 0)
                  enhanced == getEnhancedTimeblocks(
                                  kb, processedTimeblocks \o generateStandardBlocks)
              IN  [threw |-> FALSE, kb |-> enhanced.kb,
                   data |-> [timeblocks |-> enhanced.timeblocks]]

\* extractWithOpenAI / extractWithClaude / extractWithGemini of the processor:
\* the outcome of one provider.fn() call
ProviderCall(v, kb, name, out) ==
    IF out.failed \/ (name = "OpenAI" /\ out.answer.empty)
    THEN [threw |-> TRUE, kb |-> kb, data |-> [timeblocks |-> <<>>]]
    ELSE parseJSONResponse(v, kb, out.answer)

\* the values the knowledgeBase Map can hold: empty until the first answer
\* that reaches getEnhancedTimeblocks, and what such an answer makes of it
KnowledgeBaseList ==
    << <<>> >>
        \o SelectSeq(Tuple([i \in 1..Len(AnswerList) |->
                               parseJSONResponse("rag", <<>>, AnswerList[i]).kb]),
                     LAMBDA kb : kb /= <<>>)

KnowledgeBaseIndex(kb) ==
    CHOOSE k \in DOMAIN KnowledgeBaseList : KnowledgeBaseList[k] = kb

\* ProviderCall, tabulated over its arguments
ProviderCalls ==
    [v \in Versions |->
        [k \in DOMAIN KnowledgeBaseList |->
            [name \in Range(Providers(v)) |->
                [out \in CallOutcomes |->
                    ProviderCall(v, KnowledgeBaseList[k], name, out)]]]]

----------------------------------------------------------------------------
(* timetable-processor: extractTimetableWithAI's own helpers *)

\* calculateDuration of timetable-processor: no fallback, NaN on a bad time
aiCalculateDuration(startTime, endTime) ==
    LET s == ClockMinutes(startTime)
        e == ClockMinutes(endTime)
    IN  IF s /= NaN /\ e /= NaN THEN e - s ELSE NaN

aiColors ==
    <<"#3B82F6", "#10B981", "#F59E0B", "#EF4444", "#8B5CF6", "#06B6D4",
      "#F97316", "#84CC16">>

\* getDefaultColor of timetable-processor
aiGetDefaultColor(title) ==
    aiColors[(Abs(titleHash(title, 0)) % Len(aiColors)) + 1]

\* the entries extractTimetableWithAI's map throws on: no color and no title
\* (getDefaultColor(undefined) raises a TypeError)
AiEntryThrows(e) == e.color = "" /\ e.title = <<>>

AiBlock(e, index) ==
    [title |-> OrStr(e.title, ActivityWord \o Decimal(index + 1)),
     description |-> e.description,
     startTime |-> OrStr(e.startTime, <<"0","9",":","0","0">>),
     endTime |-> OrStr(e.endTime, <<"1","0",":","0","0">>),
     dayOfWeek |-> OrDay(e.dayOfWeek, "Monday"),
     duration |-> IF e.duration /= 0 THEN e.duration
                  ELSE aiCalculateDuration(e.startTime, e.endTime),
     color |-> IF e.color /= "" THEN e.color ELSE aiGetDefaultColor(e.title)]

\* one turn of extractTimetableWithAI's loop: the provider's function and the
\* validation and mapping of what it returned
AiProviderCall(name, out) ==
    IF \/ out.failed
       \/ (name = "OpenAI" /\ out.answer.empty)
       \/ out.answer.json /= "array"
       \/ \E i \in 1..Len(out.answer.entries) : AiEntryThrows(out.answer.entries[i])
    THEN [threw |-> TRUE, data |-> [timeblocks |-> <<>>]]
    ELSE [threw |-> FALSE,
          data |-> [timeblocks |->
                       Tuple([i \in 1..Len(out.answer.entries) |->
                                 AiBlock(out.answer.entries[i], i - 1)])]]

----------------------------------------------------------------------------
(* POST /api/upload *)

\* a whitelist that lets GIF images in
allowedTypesAndGif ==
    {"image/jpeg", "image/png", "image/jpg", "image/gif", "application/pdf",
     "application/vnd.openxmlformats-officedocument.wordprocessingml.document"}

\* the whitelist of the upload route
allowedTypes ==
    {"image/jpeg", "image/png", "image/jpg", "application/pdf",
     "application/vnd.openxmlformats-officedocument.wordprocessingml.document"}

\* the MIME types a client sends
UploadTypes ==
    {"image/png", "application/pdf",
     "application/vnd.openxmlformats-officedocument.wordprocessingml.document",
     "image/gif"}

\* the names a client gives its file
UploadNames ==
    {<<"t",".","p","n","g">>, <<"t",".","P","D","F">>, <<"t",".","d","o","c","x">>}

\* file.name.split('.').pop(): the text after the last dot, the whole name
\* when it has none
RECURSIVE LastPart(_)
LastPart(name) ==
    IF IndexOf(name, ".") = 0 THEN name
    ELSE LastPart(SubSeq(name, IndexOf(name, ".") + 1, Len(name)))

\* `${timestamp}-${random}.${fileExtension}`: the unique stem is the number of
\* the upload
StoredName(n, name) == <<"f">> \o Decimal(n) \o <<".">> \o LastPart(name)

\* storage records how far the handler got with the file: "none" (refused
\* before storing), "writeFailed", "createFailed" or "ok"
NoUpload ==
    [n |-> 0, hasFile |-> FALSE, type |-> "", name |-> <<>>, storage |-> "none",
     status |-> 0]

UploadPOST(hasFile, type, name, writeOk, createOk) ==
    /\ upload.n < MaxUploads
    /\ req.pc \in {"idle", "done"}
    /\ LET n == upload.n + 1
           filename == StoredName(n, name)
           answer(storage, status) ==
               [n |-> n, hasFile |-> hasFile, type |-> type, name |-> name,
                storage |-> storage, status |-> status]
       IN  IF ~hasFile \/ type \notin allowedTypes
           THEN /\ upload' = answer("none", 400)
                /\ UNCHANGED <<files, disk>>
           ELSE IF ~writeOk
           THEN /\ upload' = answer("writeFailed", 500)
                /\ UNCHANGED <<files, disk>>
           ELSE IF ~createOk
           THEN /\ upload' = answer("createFailed", 500)
                /\ disk' = disk \cup {filename}
                /\ UNCHANGED files
           ELSE /\ upload' = answer("ok", 200)
                /\ disk' = disk \cup {filename}
                /\ files' = Append(files, [filename |-> filename,
                                           originalName |-> name,
                                           mimeType |-> type,
                                           path |-> filename,
                                           processed |-> FALSE])
    /\ UNCHANGED <<route, version, knowledgeBase, teachers, timetables,
                   timeblocks, req, nreq,
                   grid, parser, rag, edit, race, sideVars>>

----------------------------------------------------------------------------
(* POST /api/process *)

\* The request in flight.  calls is the log of the calls the extraction has
\* issued, each "pending", "returned" or "threw", with what the provider's
\* text was (the log is kept until the handler turns to the database);
\* processImage is "idle", "pending", "resolved" or "rejected";
\* lookup is how prisma.uploadedFile.findUnique went and teachersBefore the
\* number of teachers when the request came in; sourceText is how the text of
\* the file came out of Tesseract or pdf-parse ("none" before and without).
IdleReq ==
    [pc |-> "idle", fileId |-> 0, teacherId |-> 0, lookup |-> "none",
     teachersBefore |-> 0, path |-> <<>>, mimeType |-> "", i |-> 0,
     calls |-> <<>>, processImage |-> "idle", extracted |-> FALSE,
     data |-> [timeblocks |-> <<>>], teacher |-> 0, timetable |-> 0,
     status |-> 0, error |-> "", sourceText |-> "none"]

Respond(r, status, error) ==
    [r EXCEPT !.pc = "done", !.status = status, !.error = error]

\* the checks without the one of the processed flag
ValidateUnprocessedOrNot(rows, fileId, findOk) ==
    IF fileId = 0 THEN [status |-> 400, error |-> "File ID is required"]
    ELSE IF ~findOk THEN [status |-> 500, error |-> "Failed to process timetable"]
    ELSE IF fileId \notin DOMAIN rows THEN [status |-> 404, error |-> "File not found"]
    ELSE [status |-> 0, error |-> ""]

\* the checks of the handler before any processing: the response it sends, or
\* status 0 when the file is to be processed
Validate(rows, fileId, findOk) ==
    IF fileId = 0 THEN [status |-> 400, error |-> "File ID is required"]
    ELSE IF ~findOk THEN [status |-> 500, error |-> "Failed to process timetable"]
    ELSE IF fileId \notin DOMAIN rows THEN [status |-> 404, error |-> "File not found"]
    ELSE IF rows[fileId].processed
    THEN [status |-> 400, error |-> "File already processed"]
    ELSE [status |-> 0, error |-> ""]

\* the handler up to its first exit: the body checks and the file lookup
ProcessPOST(fileId, teacherId, findOk) ==
    /\ req.pc \in {"idle", "done"}
    /\ nreq < MaxRequests
    /\ nreq' = nreq + 1
    /\ LET r == [IdleReq EXCEPT !.fileId = fileId, !.teacherId = teacherId,
                                !.teachersBefore = Len(teachers),
                                !.lookup = IF fileId = 0 THEN "none"
                                           ELSE IF findOk THEN "ok" ELSE "failed"]
           checked == Validate(files, fileId, findOk)
       IN  req' = IF checked.status /= 0
                  THEN Respond(r, checked.status, checked.error)
                  ELSE [r EXCEPT !.pc = "extract", !.path = files[fileId].path,
                                 !.mimeType = files[fileId].mimeType]
    /\ UNCHANGED <<route, version, knowledgeBase, files, disk, teachers,
                   timetables, timeblocks, upload,
                   grid, parser, rag, edit, race, sideVars>>

Extracted(r, data) ==
    [r EXCEPT !.pc = "teacher", !.extracted = TRUE, !.data = data]

Call(fn, name) == [fn |-> fn, name |-> name, state |-> "pending", text |-> "none"]

Issue(r, pc, fn, name) ==
    [r EXCEPT !.pc = pc, !.calls = Append(@, Call(fn, name))]

\* the call in flight has come back
Settle(r, state, text) ==
    [r EXCEPT !.calls[Len(r.calls)].state = state,
              !.calls[Len(r.calls)].text = text]

\* what a provider's answer is to JSON.parse: "none" without an answer, else
\* "empty", "unparseable", "other" or "array"
TextOf(out) ==
    IF out.failed THEN "none"
    ELSE IF out.answer.empty THEN "empty"
    ELSE IF out.answer.json = "fail" THEN "unparseable"
    ELSE out.answer.json

\* filePath.toLowerCase().endsWith('.pdf')
IsPdfPath(path) ==
    /\ Len(path) >= 4
    /\ ToLowerCase(SubSeq(path, Len(path) - 3, Len(path))) = <<".","p","d","f">>

\* mimeType.includes('image/')
IsImageType(type) == type \in {"image/jpeg", "image/png", "image/jpg", "image/gif"}

\* mimeType.includes('wordprocessingml.document')
IsWordType(type) ==
    type = "application/vnd.openxmlformats-officedocument.wordprocessingml.document"

\* a caller that does not return the result of processImage but goes on to
\* extractTimetableWithAI
ProcessImageFallsThrough(r) == {[r EXCEPT !.pc = "ai_start", !.i = 1]}

\* processImage has settled: where its caller can go on.  The logged route
\* awaits it directly; processTimetableFile returns its result and, on a
\* rejection, falls back to its own text extraction (which for a PDF may
\* itself fail and leave the "PDF Document" block).
ProcessImageSettled(r) ==
    IF r.processImage = "resolved" THEN {[r EXCEPT !.pc = "teacher"]}
    ELSE IF route = "logged" THEN {Respond(r, 500, "Failed to process timetable")}
    ELSE IF r.mimeType = "application/pdf"
    THEN {[r EXCEPT !.pc = "ai_start", !.i = 1],
          Extracted(r, [timeblocks |-> PdfDocumentBlocks])}
    ELSE {[r EXCEPT !.pc = "ai_start", !.i = 1]}

\* processImage returns data
Return(r, data) ==
    ProcessImageSettled([r EXCEPT !.processImage = "resolved",
                                  !.extracted = TRUE, !.data = data])

\* catch blocks that pass the error on
Rethrown(r) == ProcessImageSettled([r EXCEPT !.processImage = "rejected"])

\* the catch blocks of processImage, processPDFDirectly and processImageWithOCR:
\* an error thrown inside becomes the fallback schedule
Caught(r) == Return(r, getFallbackData(version))

\* the route calls the extraction: processTimetableFile(path, mimeType) in the
\* plain route, processor.processImage(path) in the logged one
StartExtraction(fileExists, mammothOk) ==
    /\ req.pc = "extract"
    /\ req' =
         IF route = "logged"
         THEN [req EXCEPT !.pc = "processImage", !.processImage = "pending"]
         ELSE IF ~fileExists
         THEN Extracted(req, [timeblocks |-> SampleActivityBlocks])
         ELSE IF req.mimeType = "application/pdf" \/ IsImageType(req.mimeType)
         THEN [req EXCEPT !.pc = "processImage", !.processImage = "pending"]
         ELSE IF IsWordType(req.mimeType) /\ ~mammothOk
         THEN Extracted(req, [timeblocks |-> SampleActivityBlocks])
         ELSE [req EXCEPT !.pc = "ai_start", !.i = 1]
    /\ UNCHANGED <<route, version, knowledgeBase, files, disk, teachers,
                   timetables, timeblocks, upload, nreq,
                   grid, parser, rag, edit, race, sideVars>>

PdfTexts == {"text", "empty", "threw"}

\* extractPDFText: any failure inside is caught and gives the empty text
extractPDFText(outcome) == IF outcome = "threw" THEN "empty" ELSE outcome

\* HybridTimetableProcessor.processImage, up to its first call out
ProcessImage(pdfText) ==
    /\ req.pc = "processImage"
    /\ req' \in
         IF IsPdfPath(req.path)
         THEN IF version = "first" THEN {[req EXCEPT !.pc = "llm_start", !.i = 1]}
              ELSE IF extractPDFText(pdfText) = "empty"
              THEN Return([req EXCEPT !.sourceText = pdfText],
                          getFallbackData(version))
              ELSE {[req EXCEPT !.pc = "llm_start", !.i = 1,
                                !.sourceText = pdfText]}
         ELSE {[req EXCEPT !.pc = "ocr_start"]}
    /\ UNCHANGED <<route, version, knowledgeBase, files, disk, teachers,
                   timetables, timeblocks, upload, nreq,
                   grid, parser, rag, edit, race, sideVars>>

\* performOCR: Tesseract.recognize is called
StartOCR ==
    /\ req.pc = "ocr_start"
    /\ req' = Issue(req, "ocr_wait", "performOCR", "Tesseract")
    /\ UNCHANGED <<route, version, knowledgeBase, files, disk, teachers,
                   timetables, timeblocks, upload, nreq,
                   grid, parser, rag, edit, race, sideVars>>

OcrOutcomes == {"text", "empty", "threw"}

\* what performOCR hands its caller: the first revision catches a failure and
\* returns an empty result, the RAG revision lets it propagate
performOCR(v, outcome) ==
    IF v = "first" /\ outcome = "threw" THEN "empty" ELSE outcome

\* Tesseract.recognize settles; the caller goes on
FinishOCR(outcome) ==
    /\ req.pc = "ocr_wait"
    /\ LET r == [Settle(req, IF outcome = "threw" THEN "threw" ELSE "returned",
                         "none") EXCEPT !.sourceText = outcome]
           got == performOCR(version, outcome)
       IN  req' \in
             IF got = "threw" THEN Caught(r)
             ELSE IF version = "rag" /\ got = "empty"
             THEN Return(r, getFallbackData(version))
             ELSE {[r EXCEPT !.pc = "llm_start", !.i = 1]}
    /\ UNCHANGED <<route, version, knowledgeBase, files, disk, teachers,
                   timetables, timeblocks, upload, nreq,
                   grid, parser, rag, edit, race, sideVars>>

\* extractTimetableWithLLM: provider.fn() is called
StartLLM ==
    /\ req.pc = "llm_start"
    /\ req' = Issue(req, "llm_wait", "extractTimetableWithLLM",
                    Providers(version)[req.i])
    /\ UNCHANGED <<route, version, knowledgeBase, files, disk, teachers,
                   timetables, timeblocks, upload, nreq,
                   grid, parser, rag, edit, race, sideVars>>

\* extractTimetableWithLLM: provider.fn() settles; return its result, try the
\* next provider, or return the fallback after the last one
FinishLLM(out) ==
    /\ req.pc = "llm_wait"
    /\ \E got \in {ProviderCalls[version][KnowledgeBaseIndex(knowledgeBase)]
                                [Providers(version)[req.i]][out]} :
          \E r \in {Settle(req, IF got.threw THEN "threw" ELSE "returned",
                           TextOf(out))} :
             /\ knowledgeBase' = got.kb
             /\ req' \in
                  IF ~got.threw THEN Return(r, got.data)
                  ELSE IF req.i < Len(Providers(version))
                  THEN {[r EXCEPT !.pc = "llm_start", !.i = req.i + 1]}
                  ELSE Return(r, getFallbackData(version))
    /\ UNCHANGED <<route, version, files, disk, teachers, timetables,
                   timeblocks, upload, nreq,
                   grid, parser, rag, edit, race, sideVars>>

\* extractTimetableWithAI: provider.fn() is called
StartAI ==
    /\ req.pc = "ai_start"
    /\ req' = Issue(req, "ai_wait", "extractTimetableWithAI", AiProviders[req.i])
    /\ UNCHANGED <<route, version, knowledgeBase, files, disk, teachers,
                   timetables, timeblocks, upload, nreq,
                   grid, parser, rag, edit, race, sideVars>>

\* extractTimetableWithAI: provider.fn() settles
FinishAI(out) ==
    /\ req.pc = "ai_wait"
    /\ LET got == AiProviderCall(AiProviders[req.i], out)
           r == Settle(req, IF got.threw THEN "threw" ELSE "returned", TextOf(out))
       IN  req' =
             IF ~got.threw THEN Extracted(r, got.data)
             ELSE IF req.i < Len(AiProviders)
             THEN [r EXCEPT !.pc = "ai_start", !.i = req.i + 1]
             ELSE Extracted(r, [timeblocks |-> SampleClassBlocks])
    /\ UNCHANGED <<route, version, knowledgeBase, files, disk, teachers,
                   timetables, timeblocks, upload, nreq,
                   grid, parser, rag, edit, race, sideVars>>

----------------------------------------------------------------------------
(* The parser and the concurrent handlers at rest *)

NoParse ==
    [pc |-> "idle", version |-> "first", response |-> <<>>, jsonContent |-> <<>>,
     entries |-> <<>>, mapped |-> <<>>, timeblocks |-> <<>>, threw |-> FALSE,
     standardBlocks |-> <<>>, allTimeblocks |-> <<>>]

NoGrid ==
    [timeblocks |-> <<>>, sortedTimeblocks |-> <<>>, renders |-> 0,
     active |-> 0, over |-> 0]

NoRag ==
    [pc |-> "idle", timeblocks |-> <<>>, extractions |-> 0, query |-> <<>>,
     limit |-> 0, results |-> <<>>]

NoEdit == [n |-> 0, id |-> 0, status |-> 0]

\* no handler is running
NoRace == <<>>


\* the console as the runtime provides it, no LogCapture started
NoConsole ==
    [fns |-> [log |-> 0, error |-> 0, warn |-> 0], captures |-> <<>>]

\* no timetable is shown in the grid
NoClient == [stored |-> {}, prop |-> {}, created |-> 0, puts |-> <<>>,
             deletes |-> 0, refreshes |-> 0]

\* no words have been handed to groupWordsByLines
NoWords == [pc |-> "idle", words |-> <<>>, lines |-> <<>>, texts |-> <<>>]

\* calculateDuration has not been called
NoClock == [pc |-> "idle", startTime |-> <<>>, endTime |-> <<>>, duration |-> 0]

\* useState<Timetable | null>(null)
Null == [id |-> "null", blocks |-> 0]

\* the home page before it is mounted
NoHome == [pc |-> "idle", server |-> <<>>, timetables |-> <<>>,
           selectedTimetable |-> Null, listed |-> <<>>, created |-> 0]

\* none of the side parts has started
SideIdle ==
    /\ console = NoConsole
    /\ client = NoClient
    /\ words = NoWords
    /\ clock = NoClock
    /\ home = NoHome
----------------------------------------------------------------------------
(* POST /api/process: the database steps after the extraction *)

DefaultEmail == "teacher@example.com"

Failed(r) == Respond(r, 500, "Failed to process timetable")

\* the id of the teacher with an email, 0 when there is none
TeacherByEmail(rows, email) ==
    IF \E i \in 1..Len(rows) : rows[i].email = email
    THEN CHOOSE i \in 1..Len(rows) : rows[i].email = email
    ELSE 0

\* if (teacherId) teacher = await prisma.teacher.findUnique(...)
FindTeacher(findOk) ==
    /\ req.pc = "teacher"
    /\ LET r == [req EXCEPT !.calls = <<>>]
       IN  req' =
             IF req.teacherId = 0 THEN [r EXCEPT !.pc = "upsert"]
             ELSE IF ~findOk THEN Failed(r)
             ELSE IF req.teacherId \in DOMAIN teachers
             THEN [r EXCEPT !.pc = "timetable", !.teacher = req.teacherId]
             ELSE [r EXCEPT !.pc = "upsert"]
    /\ UNCHANGED <<route, version, knowledgeBase, files, disk, teachers,
                   timetables, timeblocks, upload, nreq,
                   grid, parser, rag, edit, race, sideVars>>

\* if (!teacher) teacher = await prisma.teacher.upsert(...)
UpsertTeacher(upsertOk) ==
    /\ req.pc = "upsert"
    /\ IF ~upsertOk
       THEN /\ req' = Failed(req)
            /\ UNCHANGED teachers
       ELSE IF TeacherByEmail(teachers, DefaultEmail) /= 0
       THEN /\ req' = [req EXCEPT !.pc = "timetable",
                                  !.teacher = TeacherByEmail(teachers, DefaultEmail)]
            /\ UNCHANGED teachers
       ELSE /\ teachers' = Append(teachers, [name |-> "Default Teacher",
                                             email |-> DefaultEmail])
            /\ req' = [req EXCEPT !.pc = "timetable", !.teacher = Len(teachers) + 1]
    /\ UNCHANGED <<route, version, knowledgeBase, files, disk, timetables,
                   timeblocks, upload, nreq,
                   grid, parser, rag, edit, race, sideVars>>

\* const timetable = await prisma.timetable.create(...); by records the
\* request that created the row
CreateTimetable(createOk) ==
    /\ req.pc = "timetable"
    /\ IF ~createOk
       THEN /\ req' = Failed(req)
            /\ UNCHANGED timetables
       ELSE /\ timetables' = Append(timetables,
                                    [title |-> "Extracted Timetable",
                                     teacherId |-> req.teacher, by |-> nreq])
            /\ req' = [req EXCEPT !.pc = "timeblocks",
                                  !.timetable = Len(timetables) + 1]
    /\ UNCHANGED <<route, version, knowledgeBase, files, disk, teachers,
                   timeblocks, upload, nreq,
                   grid, parser, rag, edit, race, sideVars>>

\* the row prisma.timeBlock.create writes for a block
TimeBlockRow(block, timetableId) ==
    [title |-> block.title, description |-> block.description,
     startTime |-> block.startTime, endTime |-> block.endTime,
     dayOfWeek |-> block.dayOfWeek, duration |-> block.duration,
     color |-> block.color, timetableId |-> timetableId]

\* the row of the first block only
RowsOfFirst(blocks, keep, timetableId, i) ==
    IF blocks /= <<>> /\ 1 \in keep
    THEN <<TimeBlockRow(blocks[1], timetableId)>>
    ELSE <<>>

\* the rows of the blocks at the given positions, in the blocks' order
RECURSIVE RowsOf(_, _, _, _)
RowsOf(blocks, keep, timetableId, i) ==
    IF i > Len(blocks) THEN <<>>
    ELSE (IF i \in keep THEN <<TimeBlockRow(blocks[i], timetableId)>> ELSE <<>>)
             \o RowsOf(blocks, keep, timetableId, i + 1)

\* the creates that can fail together: none, the first one, or all of them
FailingCreates(n) == {{}, 1..n} \cup (IF n > 0 THEN {{1}} ELSE {})

\* await Promise.all(extractedData.timeblocks.map(prisma.timeBlock.create)):
\* every create is issued; the ones that do not fail write their row, and the
\* handler goes on only when none has failed
CreateTimeblocks(failing) ==
    /\ req.pc = "timeblocks"
    /\ LET blocks == req.data.timeblocks
           n == Len(blocks)
       IN  /\ timeblocks' = timeblocks
                 \o RowsOf(blocks, (1..n) \ failing, req.timetable, 1)
           /\ req' = IF failing = {} THEN [req EXCEPT !.pc = "update"]
                     ELSE Failed(req)
    /\ UNCHANGED <<route, version, knowledgeBase, files, disk, teachers,
                   timetables, upload, nreq,
                   grid, parser, rag, edit, race, sideVars>>

\* await prisma.uploadedFile.update({ data: { processed: true } }) and the
\* success response
MarkProcessed(updateOk) ==
    /\ req.pc = "update"
    /\ IF ~updateOk
       THEN /\ req' = Failed(req)
            /\ UNCHANGED files
       ELSE /\ files' = [files EXCEPT ![req.fileId].processed = TRUE]
            /\ req' = Respond(req, 200, "")
    /\ UNCHANGED <<route, version, knowledgeBase, disk, teachers, timetables,
                   timeblocks, upload, nreq,
                   grid, parser, rag, edit, race, sideVars>>

----------------------------------------------------------------------------
(* The application *)

Init ==
    /\ route \in Routes
    /\ version \in Versions
    /\ knowledgeBase = <<>>
    /\ files = <<>>
    /\ disk = {}
    /\ teachers = <<>>
    /\ timetables = <<>>
    /\ timeblocks = <<>>
    /\ upload = NoUpload
    /\ req = IdleReq
    /\ nreq = 0
    /\ grid = NoGrid
    /\ parser = NoParse
    /\ rag = NoRag
    /\ edit = NoEdit
    /\ SideIdle
    /\ race = NoRace

Next ==
    \/ \E type \in UploadTypes, name \in UploadNames, writeOk, createOk \in BOOLEAN :
           UploadPOST(TRUE, type, name, writeOk, createOk)
    \/ UploadPOST(FALSE, "", <<>>, TRUE, TRUE)
    \/ \E fileId \in 0..(Len(files) + 1), teacherId \in 0..(Len(teachers) + 1),
          findOk \in BOOLEAN :
           ProcessPOST(fileId, teacherId, findOk)
    \/ \E fileExists, mammothOk \in BOOLEAN : StartExtraction(fileExists, mammothOk)
    \/ \E pdfText \in PdfTexts : ProcessImage(pdfText)
    \/ StartOCR
    \/ \E outcome \in OcrOutcomes : FinishOCR(outcome)
    \/ StartLLM
    \/ \E out \in CallOutcomes : FinishLLM(out)
    \/ StartAI
    \/ \E out \in CallOutcomes : FinishAI(out)
    \/ \E findOk \in BOOLEAN : FindTeacher(findOk)
    \/ \E upsertOk \in BOOLEAN : UpsertTeacher(upsertOk)
    \/ \E createOk \in BOOLEAN : CreateTimetable(createOk)
    \/ \E failing \in FailingCreates(Len(req.data.timeblocks)) :
           CreateTimeblocks(failing)
    \/ \E updateOk \in BOOLEAN : MarkProcessed(updateOk)

Spec == Init /\ [][Next]_vars

----------------------------------------------------------------------------
(* TimetableGrid: the sort of the displayed blocks *)

days == <<"Monday", "Tuesday", "Wednesday", "Thursday", "Friday", "Saturday",
          "Sunday">>

\* getDayOrder: days.indexOf(day), -1 for a name that is no weekday
getDayOrder(day) ==
    IF \E i \in 1..Len(days) : days[i] = day
    THEN (CHOOSE i \in 1..Len(days) : days[i] = day) - 1
    ELSE -1

\* the characters of a time string in the order of the collation that
\* localeCompare uses: white space, punctuation, then the digits
CollationOrder == <<" ", ":", "0","1","2","3","4","5","6","7","8","9">>

CollationRank(c) == CHOOSE i \in 1..Len(CollationOrder) : CollationOrder[i] = c

\* String.prototype.localeCompare: negative, zero or positive
RECURSIVE localeCompare(_, _)
localeCompare(a, b) ==
    IF a = <<>> /\ b = <<>> THEN 0
    ELSE IF a = <<>> THEN -1
    ELSE IF b = <<>> THEN 1
    ELSE IF CollationRank(Head(a)) /= CollationRank(Head(b))
    THEN CollationRank(Head(a)) - CollationRank(Head(b))
    ELSE localeCompare(Tail(a), Tail(b))

\* the comparator handed to timeblocks.sort
compareTimeblocks(a, b) ==
    IF getDayOrder(a.dayOfWeek) - getDayOrder(b.dayOfWeek) /= 0
    THEN getDayOrder(a.dayOfWeek) - getDayOrder(b.dayOfWeek)
    ELSE localeCompare(a.startTime, b.startTime)

\* an unstable sort: a block goes in front of the blocks it compares equal to
RECURSIVE InsertBeforeEqual(_, _)
InsertBeforeEqual(sorted, block) ==
    IF sorted = <<>> THEN <<block>>
    ELSE IF compareTimeblocks(Head(sorted), block) < 0
    THEN <<Head(sorted)>> \o InsertBeforeEqual(Tail(sorted), block)
    ELSE <<block>> \o sorted

\* Array.prototype.sort is stable: a block goes behind every block that does
\* not compare greater than it
RECURSIVE InsertSorted(_, _)
InsertSorted(sorted, block) ==
    IF sorted = <<>> THEN <<block>>
    ELSE IF compareTimeblocks(Head(sorted), block) <= 0
    THEN <<Head(sorted)>> \o InsertSorted(Tail(sorted), block)
    ELSE <<block>> \o sorted

\* sortTimeblocksByDayAndTime: the array after timeblocks.sort(comparator)
RECURSIVE sortTimeblocksByDayAndTime(_)
sortTimeblocksByDayAndTime(blocks) ==
    IF blocks = <<>> THEN <<>>
    ELSE InsertSorted(sortTimeblocksByDayAndTime(SubSeq(blocks, 1, Len(blocks) - 1)),
                      blocks[Len(blocks)])

\* arrayMove of @dnd-kit/sortable (positions count from 1)
arrayMove(items, from, to) ==
    LET without == SubSeq(items, 1, from - 1) \o SubSeq(items, from + 1, Len(items))
    IN  SubSeq(without, 1, to - 1) \o <<items[from]>>
            \o SubSeq(without, to, Len(without))

\* the days and start times of the blocks handed to the grid: weekdays and a
\* name that is none, times in H:MM and in HH:MM form
GridDays == {"Monday", "Tuesday", "Holiday"}

GridTimes == {<<"9",":","0","0">>, <<"0","9",":","0","0">>, <<"1","0",":","0","0">>}

\* the timeblocks arrays of up to MaxGridBlocks blocks; a block's id is its
\* position in the array the grid is given
GridLists ==
    UNION {{[i \in 1..n |-> [id |-> i, dayOfWeek |-> f[i][1], startTime |-> f[i][2]]] :
                f \in [1..n -> GridDays \X GridTimes]} : n \in 0..MaxGridBlocks}

\* a render of TimetableGrid: sortTimeblocksByDayAndTime sorts the state array
\* in place and returns it
GridRender ==
    /\ grid' = [timeblocks |-> sortTimeblocksByDayAndTime(grid.timeblocks),
                sortedTimeblocks |-> sortTimeblocksByDayAndTime(grid.timeblocks),
                renders |-> IF grid.renders < 2 THEN grid.renders + 1 ELSE 2,
                active |-> grid.active,
                over |-> grid.over]
    /\ UNCHANGED appVars

\* items.findIndex((item) => item.id === id), counted from 1; 0 when absent
findIndex(items, id) ==
    IF \E i \in 1..Len(items) : items[i].id = id
    THEN CHOOSE i \in 1..Len(items) :
             items[i].id = id /\ \A j \in 1..(i - 1) : items[j].id /= id
    ELSE 0

\* handleDragEnd: if (active.id !== over?.id) setTimeblocks(items =>
\* arrayMove(items, oldIndex, newIndex)); the component renders again with the
\* new array.  active and over are kept as the drag that was handled last.
HandleDragEnd(active, over) ==
    /\ active /= over
    /\ grid.renders > 0
    /\ grid' = [grid EXCEPT
                    !.timeblocks = arrayMove(@, findIndex(@, active),
                                             findIndex(@, over)),
                    !.renders = 0,
                    !.active = active,
                    !.over = over]
    /\ UNCHANGED appVars

InitSort ==
    /\ route = "plain"
    /\ version = "first"
    /\ knowledgeBase = <<>>
    /\ files = <<>>
    /\ disk = {}
    /\ teachers = <<>>
    /\ timetables = <<>>
    /\ timeblocks = <<>>
    /\ upload = NoUpload
    /\ req = IdleReq
    /\ nreq = 0
    /\ parser = NoParse
    /\ rag = NoRag
    /\ edit = NoEdit
    /\ SideIdle
    /\ race = NoRace
    /\ \E list \in GridLists :
           grid = [timeblocks |-> list, sortedTimeblocks |-> <<>>, renders |-> 0,
                   active |-> 0, over |-> 0]

NextSort ==
    \/ GridRender
    \/ \E active, over \in {grid.timeblocks[i].id : i \in 1..Len(grid.timeblocks)} :
           HandleDragEnd(active, over)

SpecSort == InitSort /\ [][NextSort]_vars

----------------------------------------------------------------------------
(* parseJSONResponse on its own: response texts and parsed arrays *)

\* the characters of a response body: braces, other text, white space
TextChars == {"{", "}", "a", " "}

TextBodies == UNION {[1..n -> TextChars] : n \in 0..MaxText}

\* a response: a body, bare or inside a markdown fence
Responses ==
    {prefix \o body \o suffix :
        prefix \in {<<>>, JsonFence \o <<"\n">>, Fence \o <<"\n">>},
        body \in TextBodies,
        suffix \in {<<>>, <<"\n">> \o Fence}}

\* an entry as a provider may write it: any of its members present or missing
PlainEntries ==
    {[title |-> t, subject |-> s, activity |-> a, description |-> <<>>,
      startTime |-> st, endTime |-> en, time |-> tm,
      dayOfWeek |-> dw, day |-> d, duration |-> dur, color |-> "",
      blocks |-> NoArray, schedule |-> NoArray, activities |-> NoArray] :
        t \in {<<>>, <<"M","a","t","h","s">>},
        s \in {<<>>, <<"S","c","i","e","n","c","e">>},
        a \in {<<>>, <<"A","r","t">>},
        st \in {<<>>, <<"1","1",":","0","0">>},
        en \in {<<>>, <<"1","2",":","3","0">>},
        tm \in {<<>>, <<"9",":","3","0","-","1","0",":","3","0">>,
                <<"9",":","3","0"," ","-"," ","1","0",":","3","0">>,
                <<"1","3","0","0">>},
        dw \in {"", "Tuesday"},
        d \in {"", "Wednesday"},
        dur \in {0, 45}}

\* the entries nested arrays are made of: one naming its subject and a time
\* range, one naming only a day of its own, one with a title and a duration
NestedPool ==
    << [Entry(<<>>, <<>>, <<>>, <<>>, "", 0, "") EXCEPT
            !.subject = <<"R","e","a","d","i","n","g">>,
            !.time = <<"9",":","0","0","-","9",":","3","0">>],
       Entry(<<>>, <<>>, <<>>, <<>>, "Friday", 0, ""),
       Entry(<<"P","E">>, <<>>, <<"1","4",":","0","0">>, <<"1","5",":","0","0">>,
             "", 30, ""),
       Entry(<<>>, <<>>, <<>>, <<>>, "", 0, "") >>

\* what a nested member of an entry can be
NestedValues ==
    {NoArray, NotAnArray}
        \cup {ArrayOf(SubSeq(NestedPool, 1, k)) : k \in 0..MaxNested}

NestedEntries ==
    {[Entry(<<"M","a","t","h","s">>, <<>>, <<>>, <<>>, dw, 0, "") EXCEPT
          !.blocks = b, !.schedule = s, !.activities = a] :
        dw \in {"", "Thursday"},
        b \in NestedValues, s \in NestedValues, a \in NestedValues}

SmallEntries ==
    {Entry(<<>>, <<>>, <<>>, <<>>, "", 0, ""),
     Entry(<<"M","a","t","h","s">>, <<>>, <<"1","1",":","0","0">>,
           <<"1","2",":","0","0">>, "Tuesday", 0, ""),
     [Entry(<<>>, <<>>, <<>>, <<>>, "Friday", 0, "") EXCEPT
          !.schedule = ArrayOf(SubSeq(NestedPool, 1, 2))]}

\* the parsed timeblocks arrays
EntryLists ==
    {<<e>> : e \in PlainEntries \cup NestedEntries}
        \cup UNION {[1..n -> SmallEntries] : n \in 0..MaxEntries}

\* the first half of parseJSONResponse: trim, fences, the object match
CleanResponse ==
    /\ parser.pc = "response"
    /\ parser' = [parser EXCEPT !.pc = "cleaned",
                                !.jsonContent = CleanedJSON(parser.response)]
    /\ UNCHANGED <<route, version, knowledgeBase, files, disk, teachers,
                   timetables, timeblocks, upload, req, nreq, grid, rag, edit, race, sideVars>>

\* the second half: parsed.timeblocks.map(callback).flat(), or the TypeError
\* of the callback
MapEntries ==
    /\ parser.pc = "parsed"
    /\ parser' =
           IF EntriesThrow(parser.version, parser.entries)
           THEN [parser EXCEPT !.pc = "mapped", !.threw = TRUE]
           ELSE [parser EXCEPT
                     !.pc = "mapped",
                     !.mapped = Tuple([i \in 1..Len(parser.entries) |->
                                         ProcessEntry(parser.version,
                                                      parser.entries[i], i - 1)]),
                     !.timeblocks = ProcessEntries(parser.version,
                                                   parser.entries, 0)]
    /\ UNCHANGED <<route, version, knowledgeBase, files, disk, teachers,
                   timetables, timeblocks, upload, req, nreq, grid, rag, edit, race, sideVars>>

InitParse ==
    /\ route = "plain"
    /\ version = "first"
    /\ knowledgeBase = <<>>
    /\ files = <<>>
    /\ disk = {}
    /\ teachers = <<>>
    /\ timetables = <<>>
    /\ timeblocks = <<>>
    /\ upload = NoUpload
    /\ req = IdleReq
    /\ nreq = 0
    /\ grid = NoGrid
    /\ rag = NoRag
    /\ edit = NoEdit
    /\ SideIdle
    /\ race = NoRace
    /\ \/ \E response \in Responses :
              parser = [NoParse EXCEPT !.pc = "response", !.response = response]
       \/ \E v \in Versions, entries \in EntryLists :
              parser = [NoParse EXCEPT !.pc = "parsed", !.version = v,
                                       !.entries = entries]

NextParse ==
    \/ CleanResponse
    \/ MapEntries

SpecParse == InitParse /\ [][NextParse]_vars

----------------------------------------------------------------------------
(* The knowledge base of the singleton over several extractions *)

\* blocks as parseJSONResponse hands them to getEnhancedTimeblocks
KbPool ==
    << [title |-> <<"M","a","t","h","s">>, description |-> <<>>,
        startTime |-> <<"0","9",":","0","0">>, endTime |-> <<"1","0",":","0","0">>,
        dayOfWeek |-> "Monday", duration |-> 60, color |-> "#3B82F6"],
       [title |-> <<"A","r","t">>, description |-> <<"P","a","i","n","t">>,
        startTime |-> <<"1","0",":","0","0">>, endTime |-> <<"1","1",":","0","0">>,
        dayOfWeek |-> "Tuesday", duration |-> 60, color |-> "#EC4899"],
       [title |-> <<"P","E">>, description |-> <<>>,
        startTime |-> <<"1","1",":","0","0">>, endTime |-> <<"1","2",":","0","0">>,
        dayOfWeek |-> "Wednesday", duration |-> 60, color |-> "#84CC16"],
       [title |-> <<"L","u","n","c","h">>, description |-> <<>>,
        startTime |-> <<"1","2",":","0","0">>, endTime |-> <<"1","3",":","0","0">>,
        dayOfWeek |-> "Monday", duration |-> 60, color |-> "#10B981"] >>

KbLists == UNION {[1..n -> Range(KbPool)] : n \in 0..MaxKbBlocks}

\* one call of getEnhancedTimeblocks on the singleton
GetEnhanced(blocks) ==
    /\ rag.extractions < MaxExtractions
    /\ \E got \in {getEnhancedTimeblocks(knowledgeBase, blocks)} :
           /\ knowledgeBase' = got.kb
           /\ rag' = [pc |-> "enhanced", timeblocks |-> got.timeblocks,
                      extractions |-> rag.extractions + 1, query |-> <<>>,
                      limit |-> 0, results |-> <<>>]
    /\ UNCHANGED <<route, version, files, disk, teachers, timetables,
                   timeblocks, upload, req, nreq, grid, parser, edit, race, sideVars>>

\* searchKnowledgeBase(query) with the default limit, for the title of one of
\* the blocks returned last
Search(query) ==
    /\ rag.pc = "enhanced"
    /\ rag' = [rag EXCEPT !.pc = "searched", !.query = query,
                          !.limit = DefaultLimit,
                          !.results = searchKnowledgeBase(knowledgeBase, query,
                                                          DefaultLimit)]
    /\ UNCHANGED <<route, version, knowledgeBase, files, disk, teachers,
                   timetables, timeblocks, upload, req, nreq, grid, parser, edit, race, sideVars>>

\* the queries of a caller that looks for a word or a letter
Queries ==
    {<<>>, <<"t">>, <<"e">>, <<"A","r","t">>, <<"p","a","i","n","t">>,
     <<"l","u","n","c","h">>, <<"M","A","T","H","S">>}

\* searchKnowledgeBase(query, limit)
SearchWithLimit(query, limit) ==
    /\ rag.pc = "enhanced"
    /\ rag' = [rag EXCEPT !.pc = "searched", !.query = query, !.limit = limit,
                          !.results = searchKnowledgeBase(knowledgeBase, query,
                                                          limit)]
    /\ UNCHANGED <<route, version, knowledgeBase, files, disk, teachers,
                   timetables, timeblocks, upload, req, nreq, grid, parser, edit,
                   race, sideVars>>

InitKb ==
    /\ route = "plain"
    /\ version = "rag"
    /\ knowledgeBase = <<>>
    /\ files = <<>>
    /\ disk = {}
    /\ teachers = <<>>
    /\ timetables = <<>>
    /\ timeblocks = <<>>
    /\ upload = NoUpload
    /\ req = IdleReq
    /\ nreq = 0
    /\ grid = NoGrid
    /\ parser = NoParse
    /\ rag = NoRag
    /\ edit = NoEdit
    /\ SideIdle
    /\ race = NoRace

NextKb ==
    \/ \E blocks \in KbLists : GetEnhanced(blocks)
    \/ \E k \in 1..Len(rag.timeblocks) : Search(rag.timeblocks[k].title)
    \/ \E query \in Queries, limit \in 0..MaxLimit : SearchWithLimit(query, limit)

SpecKb == InitKb /\ [][NextKb]_vars

----------------------------------------------------------------------------
(* PUT /api/timeblocks/[id] on the rows a processed upload left *)

\* the bodies of the PUT requests: title, startTime and dayOfWeek present or
\* missing, two start times and two end times
EditBodies ==
    {[title |-> t, description |-> <<>>, startTime |-> s, endTime |-> e,
      dayOfWeek |-> d, color |-> ""] :
        t \in {<<>>, <<"M","a","t","h","s">>},
        s \in {<<>>, <<"0","9",":","0","0">>, <<"0","9",":","3","0">>},
        e \in {<<"1","0",":","0","0">>, <<"1","1",":","0","0">>},
        d \in {"", "Monday"}}

\* PUT: 400 for a body without title, startTime, endTime or dayOfWeek; else
\* prisma.timeBlock.update writes the six members of the body into the row
\* with the id, and throws when there is no such row or the database fails
PutTimeblock(id, body, updateOk) ==
    /\ edit.n < MaxEdits
    /\ IF \/ body.title = <<>>
          \/ body.startTime = <<>>
          \/ body.endTime = <<>>
          \/ body.dayOfWeek = ""
       THEN /\ edit' = [n |-> edit.n + 1, id |-> id, status |-> 400]
            /\ UNCHANGED timeblocks
       ELSE IF id \notin DOMAIN timeblocks \/ ~updateOk
       THEN /\ edit' = [n |-> edit.n + 1, id |-> id, status |-> 500]
            /\ UNCHANGED timeblocks
       ELSE /\ edit' = [n |-> edit.n + 1, id |-> id, status |-> 200]
            /\ timeblocks' =
                   [timeblocks EXCEPT ![id] =
                       [@ EXCEPT !.title = body.title,
                                 !.description = body.description,
                                 !.startTime = body.startTime,
                                 !.endTime = body.endTime,
                                 !.dayOfWeek = body.dayOfWeek,
                                 !.color = IF body.color /= "" THEN body.color
                                           ELSE "#3B82F6"]]
    /\ UNCHANGED <<route, version, knowledgeBase, files, disk, teachers,
                   timetables, upload, req, nreq, grid, parser, rag, race, sideVars>>

\* the database after one upload (t.png, image/png) and one successful
\* process request for it in which every provider failed
InitEdit ==
    /\ route = "plain"
    /\ version = "first"
    /\ knowledgeBase = <<>>
    /\ files = << [filename |-> StoredName(1, <<"t",".","p","n","g">>),
                   originalName |-> <<"t",".","p","n","g">>,
                   mimeType |-> "image/png",
                   path |-> StoredName(1, <<"t",".","p","n","g">>),
                   processed |-> TRUE] >>
    /\ disk = {StoredName(1, <<"t",".","p","n","g">>)}
    /\ teachers = << [name |-> "Default Teacher", email |-> DefaultEmail] >>
    /\ timetables = << [title |-> "Extracted Timetable", teacherId |-> 1,
                        by |-> 1] >>
    /\ timeblocks = RowsOf(FirstFallbackBlocks, 1..Len(FirstFallbackBlocks), 1, 1)
    /\ upload = [n |-> 1, hasFile |-> TRUE, type |-> "image/png",
                 name |-> <<"t",".","p","n","g">>, storage |-> "ok",
                 status |-> 200]
    /\ req = IdleReq
    /\ nreq = 1
    /\ grid = NoGrid
    /\ parser = NoParse
    /\ rag = NoRag
    /\ edit = NoEdit
    /\ SideIdle
    /\ race = NoRace

NextEdit ==
    \E id \in 0..(Len(timeblocks) + 1), body \in EditBodies, updateOk \in BOOLEAN :
        PutTimeblock(id, body, updateOk)

SpecEdit == InitEdit /\ [][NextEdit]_vars

----------------------------------------------------------------------------
(* POST /api/process: handlers that run at the same time, step by step from
   one await to the next *)

\* what processTimetableFile can resolve to when every provider fails: the
\* processor's fallback schedule or the sample class of extractTimetableWithAI
RaceResults == {FirstFallbackBlocks, SampleClassBlocks}

StartHandler ==
    [pc |-> "lookup", fileId |-> 1, data |-> <<>>, teacher |-> 0,
     timetable |-> 0, status |-> 0]

\* await prisma.uploadedFile.findUnique and the checks on the row it returned
RaceLookup(h) ==
    /\ race[h].pc = "lookup"
    /\ race' = [race EXCEPT ![h] =
                   IF race[h].fileId \notin DOMAIN files
                   THEN [@ EXCEPT !.pc = "done", !.status = 404]
                   ELSE IF files[race[h].fileId].processed
                   THEN [@ EXCEPT !.pc = "done", !.status = 400]
                   ELSE [@ EXCEPT !.pc = "extract"]]
    /\ UNCHANGED <<route, version, knowledgeBase, files, disk, teachers,
                   timetables, timeblocks, upload, req, nreq, grid, parser,
                   rag, edit, sideVars>>

\* await processTimetableFile(uploadedFile.path, uploadedFile.mimeType)
RaceExtract(h, data) ==
    /\ race[h].pc = "extract"
    /\ race' = [race EXCEPT ![h] = [@ EXCEPT !.pc = "upsert", !.data = data]]
    /\ UNCHANGED <<route, version, knowledgeBase, files, disk, teachers,
                   timetables, timeblocks, upload, req, nreq, grid, parser,
                   rag, edit, sideVars>>

\* no teacherId in the request: await prisma.teacher.upsert for the default
\* teacher
RaceUpsertTeacher(h) ==
    /\ race[h].pc = "upsert"
    /\ IF TeacherByEmail(teachers, DefaultEmail) /= 0
       THEN /\ race' = [race EXCEPT ![h] =
                           [@ EXCEPT !.pc = "timetable",
                                     !.teacher = TeacherByEmail(teachers,
                                                                DefaultEmail)]]
            /\ UNCHANGED teachers
       ELSE /\ teachers' = Append(teachers, [name |-> "Default Teacher",
                                             email |-> DefaultEmail])
            /\ race' = [race EXCEPT ![h] =
                           [@ EXCEPT !.pc = "timetable",
                                     !.teacher = Len(teachers) + 1]]
    /\ UNCHANGED <<route, version, knowledgeBase, files, disk, timetables,
                   timeblocks, upload, req, nreq, grid, parser, rag, edit, sideVars>>

\* await prisma.timetable.create; by records the handler that created the row
RaceCreateTimetable(h) ==
    /\ race[h].pc = "timetable"
    /\ timetables' = Append(timetables, [title |-> "Extracted Timetable",
                                         teacherId |-> race[h].teacher,
                                         by |-> h])
    /\ race' = [race EXCEPT ![h] = [@ EXCEPT !.pc = "timeblocks",
                                             !.timetable = Len(timetables) + 1]]
    /\ UNCHANGED <<route, version, knowledgeBase, files, disk, teachers,
                   timeblocks, upload, req, nreq, grid, parser, rag, edit, sideVars>>

\* await Promise.all(extractedData.timeblocks.map(prisma.timeBlock.create))
RaceCreateTimeblocks(h) ==
    /\ race[h].pc = "timeblocks"
    /\ timeblocks' = timeblocks
           \o RowsOf(race[h].data, 1..Len(race[h].data), race[h].timetable, 1)
    /\ race' = [race EXCEPT ![h] = [@ EXCEPT !.pc = "update"]]
    /\ UNCHANGED <<route, version, knowledgeBase, files, disk, teachers,
                   timetables, upload, req, nreq, grid, parser, rag, edit, sideVars>>

\* await prisma.uploadedFile.update({ data: { processed: true } }) and the
\* success response
RaceMarkProcessed(h) ==
    /\ race[h].pc = "update"
    /\ files' = [files EXCEPT ![race[h].fileId] = [@ EXCEPT !.processed = TRUE]]
    /\ race' = [race EXCEPT ![h] = [@ EXCEPT !.pc = "done", !.status = 200]]
    /\ UNCHANGED <<route, version, knowledgeBase, disk, teachers, timetables,
                   timeblocks, upload, req, nreq, grid, parser, rag, edit, sideVars>>

\* the state after one accepted upload (t.png, image/png), with MaxHandlers
\* process requests for the file arriving
InitRace ==
    /\ route = "plain"
    /\ version = "first"
    /\ knowledgeBase = <<>>
    /\ files = << [filename |-> StoredName(1, <<"t",".","p","n","g">>),
                   originalName |-> <<"t",".","p","n","g">>,
                   mimeType |-> "image/png",
                   path |-> StoredName(1, <<"t",".","p","n","g">>),
                   processed |-> FALSE] >>
    /\ disk = {StoredName(1, <<"t",".","p","n","g">>)}
    /\ teachers = <<>>
    /\ timetables = <<>>
    /\ timeblocks = <<>>
    /\ upload = [n |-> 1, hasFile |-> TRUE, type |-> "image/png",
                 name |-> <<"t",".","p","n","g">>, storage |-> "ok",
                 status |-> 200]
    /\ req = IdleReq
    /\ nreq = 0
    /\ grid = NoGrid
    /\ parser = NoParse
    /\ rag = NoRag
    /\ edit = NoEdit
    /\ SideIdle
    /\ race = [h \in 1..MaxHandlers |-> StartHandler]

NextRace ==
    \E h \in 1..MaxHandlers :
        \/ RaceLookup(h)
        \/ \E data \in RaceResults : RaceExtract(h, data)
        \/ RaceUpsertTeacher(h)
        \/ RaceCreateTimetable(h)
        \/ RaceCreateTimeblocks(h)
        \/ RaceMarkProcessed(h)

SpecRace == InitRace /\ [][NextRace]_vars

----------------------------------------------------------------------------
(* The log-capturing process route: LogCapture over the global console *)

\* console.log, console.error and console.warn as the runtime provides them;
\* 0 names the native function, i > 0 the arrow function that start() of the
\* i-th LogCapture assigned
NativeConsole == [log |-> 0, error |-> 0, warn |-> 0]

\* start(): the three functions are replaced by closures over this LogCapture
Patched(i) == [log |-> i, error |-> i, warn |-> i]

\* new LogCapture(): the constructor reads the three functions of the moment
LogCapture(fns) ==
    [pc |-> "validating", original |-> fns, logs |-> 0, late |-> FALSE]

\* the LogCaptures whose logs receive a line written through function fn of
\* the method named m: the closure pushes the line, then calls its original
RECURSIVE Receivers(_, _, _)
Receivers(captures, m, fn) ==
    IF fn = 0 THEN {}
    ELSE {fn} \cup Receivers(captures, m, captures[fn].original[m])

\* this.logs.push(...) in every receiver of a line written with method m
Written(captures, m, fns) ==
    [i \in DOMAIN captures |->
        IF i \in Receivers(captures, m, fns[m])
        THEN [captures[i] EXCEPT
                 !.logs = IF @ < MaxLines THEN @ + 1 ELSE @,
                 !.late = @ \/ captures[i].pc = "responded"]
        ELSE captures[i]]

SideButConsole == <<client, words, clock, home>>

\* POST: const logCapture = new LogCapture()
NewCapture ==
    /\ Len(console.captures) < MaxCaptures
    /\ console' = [console EXCEPT
                      !.captures = Append(@, LogCapture(console.fns))]
    /\ UNCHANGED <<routeVars, SideButConsole>>

\* POST: the 400 and 404 returns before logCapture.start()
RefuseCapture(i) ==
    /\ console.captures[i].pc = "validating"
    /\ console' = [console EXCEPT !.captures[i].pc = "responded"]
    /\ UNCHANGED <<routeVars, SideButConsole>>

\* POST: logCapture.start()
StartCapture(i) ==
    /\ console.captures[i].pc = "validating"
    /\ console' = [console EXCEPT !.fns = Patched(i),
                                  !.captures[i].pc = "processing"]
    /\ UNCHANGED <<routeVars, SideButConsole>>

\* any code of the server process calls console.log, console.error or
\* console.warn: the processor during a request, or another route later
WriteLine(m) ==
    /\ \E i \in Receivers(console.captures, m, console.fns[m]) :
          console.captures[i].logs < MaxLines
    /\ console' = [console EXCEPT
                      !.captures = Written(console.captures, m, console.fns)]
    /\ UNCHANGED <<routeVars, SideButConsole>>

\* POST: logCapture.stop() and the success response
StopCapture(i) ==
    /\ console.captures[i].pc = "processing"
    /\ console' = [console EXCEPT !.fns = console.captures[i].original,
                                  !.captures[i].pc = "responded"]
    /\ UNCHANGED <<routeVars, SideButConsole>>

\* POST: the catch block: logCapture.stop(), console.error(...), status 500;
\* request.json() and findUnique can throw before start()
CatchCapture(i) ==
    /\ console.captures[i].pc \in {"validating", "processing"}
    /\ LET stopped == console.captures[i].original
           written == Written(console.captures, "error", stopped)
       IN  console' = [fns |-> stopped,
                       captures |-> [written EXCEPT ![i].pc = "responded"]]
    /\ UNCHANGED <<routeVars, SideButConsole>>

InitConsole ==
    /\ route = "logged"
    /\ version = "rag"
    /\ knowledgeBase = <<>>
    /\ files = <<>>
    /\ disk = {}
    /\ teachers = <<>>
    /\ timetables = <<>>
    /\ timeblocks = <<>>
    /\ upload = NoUpload
    /\ req = IdleReq
    /\ nreq = 0
    /\ grid = NoGrid
    /\ parser = NoParse
    /\ rag = NoRag
    /\ edit = NoEdit
    /\ race = NoRace
    /\ SideIdle

NextConsole ==
    \/ NewCapture
    \/ \E i \in DOMAIN console.captures : RefuseCapture(i)
    \/ \E i \in DOMAIN console.captures : StartCapture(i)
    \/ \E m \in {"log", "error", "warn"} : WriteLine(m)
    \/ \E i \in DOMAIN console.captures : StopCapture(i)
    \/ \E i \in DOMAIN console.captures : CatchCapture(i)

SpecConsole == InitConsole /\ [][NextConsole]_vars

----------------------------------------------------------------------------
(* The grid adds and deletes activities of the timetable it shows.  A       *)
(* timeblock row is its id; the rows of the timetable's first extraction    *)
(* are 1 and 2, rows created later are numbered on.                         *)

SideButClient == <<console, words, clock, home>>

\* the ids of the rows the timetable had when it was extracted
ExtractedRows == {1, 2}

\* the id the database gives the next row it creates
NewRowId(c) == Cardinality(ExtractedRows) + c.created + 1

\* handleSaveCreate: fetch PUT with timeblocks: [...timetable.timeblocks,
\* newTimeblock], the prop of the last render
HandleSaveCreate ==
    /\ Len(client.puts) < MaxPuts
    /\ client' = [client EXCEPT
                     !.puts = Append(@, [pc |-> "sent", body |-> client.prop,
                                         before |-> {}, new |-> 0,
                                         after |-> {}])]
    /\ UNCHANGED <<routeVars, SideButClient>>

\* PUT: request.json() or prisma.timetable.update throws: 500, nothing written
PutThrowsEarly(p) ==
    /\ client.puts[p].pc = "sent"
    /\ client' = [client EXCEPT !.puts[p].pc = "failed",
                                !.puts[p].before = client.stored,
                                !.puts[p].after = client.stored]
    /\ UNCHANGED <<routeVars, SideButClient>>

\* PUT: prisma.timetable.update, then prisma.timeBlock.deleteMany
PutDeleteMany(p) ==
    /\ client.puts[p].pc = "sent"
    /\ client' = [client EXCEPT !.stored = {},
                                !.puts[p].pc = "deleted",
                                !.puts[p].before = client.stored]
    /\ UNCHANGED <<routeVars, SideButClient>>

\* PUT: prisma.timeBlock.createMany of the body's rows and the new one, the
\* findUnique and the response; createMany throws on a database error and on
\* an id that is stored already, and then the catch block answers 500
PutCreateMany(p, dbOk) ==
    /\ client.puts[p].pc = "deleted"
    /\ IF dbOk /\ client.puts[p].body \cap client.stored = {}
       THEN client' = [client EXCEPT
                !.stored = @ \cup client.puts[p].body \cup {NewRowId(client)},
                !.created = @ + 1,
                !.refreshes = @ + 1,
                !.puts[p].pc = "done",
                !.puts[p].new = NewRowId(client),
                !.puts[p].after =
                    client.stored \cup client.puts[p].body
                                  \cup {NewRowId(client)}]
       ELSE client' = [client EXCEPT !.puts[p].pc = "failed",
                                     !.puts[p].after = client.stored]
    /\ UNCHANGED <<routeVars, SideButClient>>

\* handleDeleteTimeblock of a block the grid shows: DELETE
\* /api/timeblocks/[id]; prisma.timeBlock.delete throws when the row is gone
HandleDeleteTimeblock(id) ==
    /\ client.deletes < MaxDeletes
    /\ id \in client.prop
    /\ IF id \in client.stored
       THEN client' = [client EXCEPT !.stored = @ \ {id},
                                     !.deletes = @ + 1,
                                     !.refreshes = @ + 1]
       ELSE client' = [client EXCEPT !.deletes = @ + 1]
    /\ UNCHANGED <<routeVars, SideButClient>>

\* handleTimetableUpdated: GET /api/timetables/[id], setTimetables; the grid's
\* prop is the fetched timetable from the next render on
HandleTimetableUpdated ==
    /\ client.refreshes > 0
    /\ client' = [client EXCEPT !.prop = client.stored, !.refreshes = @ - 1]
    /\ UNCHANGED <<routeVars, SideButClient>>

InitClient ==
    /\ route = "plain"
    /\ version = "first"
    /\ knowledgeBase = <<>>
    /\ files = <<>>
    /\ disk = {}
    /\ teachers = <<>>
    /\ timetables = <<>>
    /\ timeblocks = <<>>
    /\ upload = NoUpload
    /\ req = IdleReq
    /\ nreq = 0
    /\ grid = NoGrid
    /\ parser = NoParse
    /\ rag = NoRag
    /\ edit = NoEdit
    /\ race = NoRace
    /\ console = NoConsole
    /\ client = [NoClient EXCEPT !.stored = ExtractedRows,
                                 !.prop = ExtractedRows]
    /\ words = NoWords
    /\ clock = NoClock
    /\ home = NoHome

NextClient ==
    \/ HandleSaveCreate
    \/ \E p \in DOMAIN client.puts : PutThrowsEarly(p)
    \/ \E p \in DOMAIN client.puts : PutDeleteMany(p)
    \/ \E p \in DOMAIN client.puts : \E dbOk \in BOOLEAN : PutCreateMany(p, dbOk)
    \/ \E id \in client.prop : HandleDeleteTimeblock(id)
    \/ HandleTimetableUpdated

SpecClient == InitClient /\ [][NextClient]_vars

----------------------------------------------------------------------------
(* The end of parseJSONResponse: the standard blocks are added to the       *)
(* blocks extracted from the provider's answer                              *)

\* the name of each standard category and the days and the start time its
\* blocks have in generateStandardBlocks / generateConditionalStandardBlocks
StandardKinds ==
    <<"Registration", "Break", "Lunch", "StoryTime", "Assembly", "Handwriting",
      "MathsMeeting">>

CategoryName(kind) ==
    CASE kind = "Registration" -> <<"R","e","g","i","s","t","r","a","t","i","o","n">>
      [] kind = "Break" -> <<"B","r","e","a","k">>
      [] kind = "Lunch" -> <<"L","u","n","c","h">>
      [] kind = "StoryTime" -> <<"S","t","o","r","y"," ","T","i","m","e">>
      [] kind = "Assembly" -> <<"A","s","s","e","m","b","l","y">>
      [] kind = "Handwriting" -> <<"H","a","n","d","w","r","i","t","i","n","g">>
      [] kind = "MathsMeeting" -> <<"M","a","t","h","s"," ","M","e","e","t","i","n","g">>

CategoryDays(kind) ==
    CASE kind = "Assembly" -> AssemblyDays
      [] kind = "Handwriting" -> HandwritingDays
      [] kind = "MathsMeeting" -> MathsMeetingDays
      [] OTHER -> WeekDays

\* a block as the map callback of parseJSONResponse leaves it: what a provider
\* extracts for an activity named title on the first day and at the time of
\* the standard block of that kind
ExtractedAs(title, kind) ==
    [StdBlock(kind, CategoryDays(kind)[1]) EXCEPT
         !.title = title,
         !.description = <<>>,
         !.color = getDefaultColor(title)]

\* the blocks a provider's answer can have held: activities named like a
\* standard category, named by its other word, and lessons
ExtractedPool ==
    {ExtractedAs(CategoryName(StandardKinds[k]), StandardKinds[k]) :
         k \in DOMAIN StandardKinds}
      \cup {ExtractedAs(<<"R","e","c","e","s","s">>, "Break"),
            ExtractedAs(<<"l","u","n","c","h"," ","b","r","e","a","k">>, "Lunch"),
            ExtractedAs(<<"M","a","t","h","s">>, "Assembly")}

\* the lists of extracted blocks, each activity extracted once
ExtractedLists ==
    {list \in UNION {[1..n -> ExtractedPool] : n \in 0..MaxExtracted} :
         \A i, j \in DOMAIN list : list[i] = list[j] => i = j}

\* parseJSONResponse from "Only add standard blocks if they don't already
\* exist" (first revision) or "Add missing standard blocks" (RAG revision) to
\* its return; the RAG revision's knowledge base is not followed here
AddStandardBlocks ==
    /\ parser.pc = "extracted"
    /\ \E standardBlocks \in
           {IF parser.version = "first"
            THEN generateConditionalStandardBlocks(parser.timeblocks)
            ELSE generateStandardBlocks} :
         parser' = [parser EXCEPT
             !.pc = "returned",
             !.standardBlocks = standardBlocks,
             !.allTimeblocks =
                 IF parser.version = "first"
                 THEN parser.timeblocks \o standardBlocks
                 ELSE getEnhancedTimeblocks(
                          <<>>, parser.timeblocks \o standardBlocks).timeblocks]
    /\ UNCHANGED <<route, version, knowledgeBase, files, disk, teachers,
                   timetables, timeblocks, upload, req, nreq, grid, rag, edit,
                   race, sideVars>>

InitStandard ==
    /\ route = "plain"
    /\ version = "first"
    /\ knowledgeBase = <<>>
    /\ files = <<>>
    /\ disk = {}
    /\ teachers = <<>>
    /\ timetables = <<>>
    /\ timeblocks = <<>>
    /\ upload = NoUpload
    /\ req = IdleReq
    /\ nreq = 0
    /\ grid = NoGrid
    /\ rag = NoRag
    /\ edit = NoEdit
    /\ race = NoRace
    /\ SideIdle
    /\ \E v \in Versions, extracted \in ExtractedLists :
           parser = [NoParse EXCEPT !.pc = "extracted", !.version = v,
                                    !.timeblocks = extracted]

NextStandard == AddStandardBlocks

SpecStandard == InitStandard /\ [][NextStandard]_vars

----------------------------------------------------------------------------
(* groupWordsByLines: the words of an OCR result grouped into lines.  A     *)
(* word is its text and the y0 of its bounding box, in pixels.              *)

\* const lineThreshold = 20 // pixels
lineThreshold ==
    20

\* [...words].sort((a, b) => a.bbox.y0 - b.bbox.y0): the sort is stable, a
\* word stays behind the words of the same y0 that came before it
RECURSIVE SortByY0(_)
SortByY0(ws) ==
    IF ws = <<>> THEN <<>>
    ELSE LET before == SortByY0(SubSeq(ws, 1, Len(ws) - 1))
             w == ws[Len(ws)]
             k == Cardinality({i \in DOMAIN before : before[i].y0 <= w.y0})
         IN  SubSeq(before, 1, k) \o <<w>> \o SubSeq(before, k + 1, Len(before))

\* a grouping that measures each word against the word before it
LineStepFromPrevious(st, word) ==
    IF Abs(word.y0 - st.currentY) > lineThreshold
    THEN [lines |-> IF Len(st.currentLine) > 0
                    THEN Append(st.lines, st.currentLine) ELSE st.lines,
          currentLine |-> <<word>>,
          currentY |-> word.y0]
    ELSE [st EXCEPT !.currentLine = Append(@, word), !.currentY = word.y0]

\* one turn of sortedWords.forEach: st holds lines, currentLine and currentY
LineStep(st, word) ==
    IF Abs(word.y0 - st.currentY) > lineThreshold
    THEN [lines |-> IF Len(st.currentLine) > 0
                    THEN Append(st.lines, st.currentLine) ELSE st.lines,
          currentLine |-> <<word>>,
          currentY |-> word.y0]
    ELSE [st EXCEPT !.currentLine = Append(@, word)]

RECURSIVE LineLoop(_, _)
LineLoop(st, ws) ==
    IF ws = <<>> THEN st ELSE LineLoop(LineStep(st, Head(ws)), Tail(ws))

\* HybridTimetableProcessor.groupWordsByLines, the lines with their words
groupWordsByLines(ws) ==
    IF Len(ws) = 0 THEN <<>>
    ELSE LET sortedWords == SortByY0(ws)
             st == LineLoop([lines |-> <<>>, currentLine |-> <<>>,
                             currentY |-> sortedWords[1].y0], sortedWords)
         IN  IF Len(st.currentLine) > 0
             THEN Append(st.lines, st.currentLine) ELSE st.lines

\* currentLine.push(word.text): what the method returns of each line
LineTexts(lines) ==
    Tuple([l \in DOMAIN lines |->
              Tuple([k \in DOMAIN lines[l] |-> lines[l][k].text])])

\* the words Tesseract can report: two texts, tops on one line, within the
\* threshold of each other in a chain, and further apart
OcrWords == {[text |-> t, y0 |-> y] : t \in {"a", "b"}, y \in {0, 15, 30, 50}}

WordLists == UNION {[1..n -> OcrWords] : n \in 0..MaxWords}

GroupWords ==
    /\ words.pc = "recognized"
    /\ \E lines \in {groupWordsByLines(words.words)} :
           words' = [words EXCEPT !.pc = "grouped", !.lines = lines,
                                  !.texts = LineTexts(lines)]
    /\ UNCHANGED <<routeVars, console, client, clock, home>>

InitWords ==
    /\ route = "plain"
    /\ version = "first"
    /\ knowledgeBase = <<>>
    /\ files = <<>>
    /\ disk = {}
    /\ teachers = <<>>
    /\ timetables = <<>>
    /\ timeblocks = <<>>
    /\ upload = NoUpload
    /\ req = IdleReq
    /\ nreq = 0
    /\ grid = NoGrid
    /\ parser = NoParse
    /\ rag = NoRag
    /\ edit = NoEdit
    /\ race = NoRace
    /\ console = NoConsole
    /\ client = NoClient
    /\ \E ws \in WordLists : words = [NoWords EXCEPT !.pc = "recognized",
                                                     !.words = ws]
    /\ clock = NoClock
    /\ home = NoHome

NextWords == GroupWords

SpecWords == InitWords /\ [][NextWords]_vars

----------------------------------------------------------------------------
(* calculateDuration on its own *)

\* the time strings a provider writes: 24-hour times, 12-hour times with AM
\* or PM, times without a colon, padded with white space, and no time at all
TimeStrings ==
    {<<"9",":","0","0">>, <<"0","9",":","3","0">>, <<"1","4",":","1","5">>,
     <<" ","1","0",":","0","0"," ">>,
     <<"1","1",":","0","0"," ","A","M">>, <<"1",":","0","0"," ","P","M">>,
     <<"1","2",":","3","0","P","M">>,
     <<"0","9","3","0">>, <<"n","o","o","n">>, <<>>}

\* const duration = this.calculateDuration(startTime, endTime)
ComputeDuration ==
    /\ clock.pc = "called"
    /\ clock' = [clock EXCEPT
                    !.pc = "returned",
                    !.duration = calculateDuration(clock.startTime,
                                                   clock.endTime)]
    /\ UNCHANGED <<routeVars, console, client, words, home>>

InitClock ==
    /\ route = "plain"
    /\ version = "first"
    /\ knowledgeBase = <<>>
    /\ files = <<>>
    /\ disk = {}
    /\ teachers = <<>>
    /\ timetables = <<>>
    /\ timeblocks = <<>>
    /\ upload = NoUpload
    /\ req = IdleReq
    /\ nreq = 0
    /\ grid = NoGrid
    /\ parser = NoParse
    /\ rag = NoRag
    /\ edit = NoEdit
    /\ race = NoRace
    /\ console = NoConsole
    /\ client = NoClient
    /\ words = NoWords
    /\ \E s \in TimeStrings, e \in TimeStrings :
           clock = [NoClock EXCEPT !.pc = "called", !.startTime = s,
                                   !.endTime = e]
    /\ home = NoHome

NextClock == ComputeDuration

SpecClock == InitClock /\ [][NextClock]_vars

----------------------------------------------------------------------------
(* The home page: its timetable list, the selected timetable and the list   *)
(* component beside it.  A timetable is its id and the number of its        *)
(* timeblocks.                                                              *)

\* the timetable of sample-data.ts, shown when the list cannot be fetched
sampleTimetable == [id |-> "sample", blocks |-> 1]

\* ids the database gives its timetables, in the order of their creation
TimetableIds == <<"t1", "t2", "t3", "t4">>

\* prev.filter(t => t.id !== id)
WithoutId(list, id) == SelectSeq(list, LAMBDA t : t.id /= id)

\* prev.map(t => t.id === id ? updated : t)
Replaced(list, id, updated) ==
    Tuple([i \in DOMAIN list |-> IF list[i].id = id THEN updated ELSE list[i]])

Ids(list) == {list[i].id : i \in DOMAIN list}

ButHome == <<routeVars, console, client, words, clock>>

\* Home: useEffect(() => { fetchTimetables() }, [])
FetchTimetables(ok) ==
    /\ home.pc = "mounting"
    /\ home' =
         IF ok
         THEN [home EXCEPT
                  !.pc = "ready",
                  !.timetables = home.server,
                  !.selectedTimetable = IF Len(home.server) > 0
                                        THEN home.server[1] ELSE @]
         ELSE [home EXCEPT !.pc = "ready",
                           !.timetables = <<sampleTimetable>>,
                           !.selectedTimetable = sampleTimetable]
    /\ UNCHANGED ButHome

\* TimetableList.fetchTimetables, on mount and from its refresh button
ListFetchTimetables ==
    /\ home.pc = "ready"
    /\ home' = [home EXCEPT !.listed = home.server]
    /\ UNCHANGED ButHome

\* FileUpload has uploaded and processed a file: handleTimetableCreated
HandleTimetableCreated ==
    /\ home.pc = "ready"
    /\ home.created < MaxCreated
    /\ LET newTimetable ==
               [id |-> TimetableIds[MaxStored + home.created + 1], blocks |-> 1]
       IN  home' = [home EXCEPT
                       !.server = <<newTimetable>> \o @,
                       !.created = @ + 1,
                       !.timetables = <<newTimetable>> \o @,
                       !.selectedTimetable = newTimetable]
    /\ UNCHANGED ButHome

\* a click on a row of TimetableList: handleSelectTimetable
HandleSelectTimetable(timetable) ==
    /\ home.pc = "ready"
    /\ home' = [home EXCEPT !.selectedTimetable = timetable]
    /\ UNCHANGED ButHome

\* Home.handleTimetableDeleted: timetables is the list of the last render
HandleTimetableDeleted(h, deletedId) ==
    [h EXCEPT
        !.timetables = WithoutId(@, deletedId),
        !.selectedTimetable =
            IF @.id = deletedId
            THEN IF Len(h.timetables) > 1 THEN h.timetables[2] ELSE Null
            ELSE @]

\* TimetableList.handleDelete: DELETE /api/timetables/[id]; when the response
\* is ok the row leaves the list and onDeleteTimetable(id) is called
HandleDelete(id) ==
    /\ home.pc = "ready"
    /\ id \in Ids(home.server)
    /\ home' = HandleTimetableDeleted(
                   [home EXCEPT !.server = WithoutId(@, id),
                                !.listed = WithoutId(@, id)], id)
    /\ UNCHANGED ButHome

\* the grid has saved an edit of the timetable it shows: the timetable has
\* other timeblocks in the database
SaveEdit ==
    /\ home.pc = "ready"
    /\ \E i \in DOMAIN home.server :
          /\ home.server[i].id = home.selectedTimetable.id
          /\ home.server[i].blocks < 2
          /\ home' = [home EXCEPT !.server[i].blocks = @ + 1]
    /\ UNCHANGED ButHome

\* Home.handleTimetableUpdated(timetableId), called by the grid
HandleTimetableUpdatedHome ==
    /\ home.pc = "ready"
    /\ \E i \in DOMAIN home.server :
          /\ home.server[i].id = home.selectedTimetable.id
          /\ home' = [home EXCEPT
                 !.timetables = Replaced(@, home.server[i].id, home.server[i]),
                 !.selectedTimetable = home.server[i]]
    /\ UNCHANGED ButHome

InitHome ==
    /\ route = "plain"
    /\ version = "first"
    /\ knowledgeBase = <<>>
    /\ files = <<>>
    /\ disk = {}
    /\ teachers = <<>>
    /\ timetables = <<>>
    /\ timeblocks = <<>>
    /\ upload = NoUpload
    /\ req = IdleReq
    /\ nreq = 0
    /\ grid = NoGrid
    /\ parser = NoParse
    /\ rag = NoRag
    /\ edit = NoEdit
    /\ race = NoRace
    /\ console = NoConsole
    /\ client = NoClient
    /\ words = NoWords
    /\ clock = NoClock
    /\ \E n \in 0..MaxStored :
          home = [NoHome EXCEPT
                     !.pc = "mounting",
                     !.server = Tuple([i \in 1..n |->
                                   [id |-> TimetableIds[n + 1 - i], blocks |-> 1]])]

NextHome ==
    \/ \E ok \in BOOLEAN : FetchTimetables(ok)
    \/ ListFetchTimetables
    \/ HandleTimetableCreated
    \/ \E i \in DOMAIN home.listed : HandleSelectTimetable(home.listed[i])
    \/ \E i \in DOMAIN home.listed : HandleDelete(home.listed[i].id)
    \/ SaveEdit
    \/ HandleTimetableUpdatedHome

SpecHome == InitHome /\ [][NextHome]_vars

----------------------------------------------------------------------------
(* Properties *)

\* C1: extractTimetableWithLLM invokes the providers in the order of its list
\* (OpenAI, Claude, Gemini in the first processor; Claude, Gemini in the RAG
\* processor), each at most once, and a provider is invoked only when every
\* provider before it has thrown.
ProvidersTriedInOrder ==
    LET llm == SelectSeq(req.calls, LAMBDA c : c.fn = "extractTimetableWithLLM")
        order == IF version = "first" THEN <<"OpenAI", "Claude", "Gemini">>
                 ELSE <<"Claude", "Gemini">>
    IN  /\ Len(llm) <= Len(order)
        /\ \A k \in 1..Len(llm) : llm[k].name = order[k]
        /\ \A k \in 1..(Len(llm) - 1) : llm[k].state = "threw"

\* the last provider of the first processor has been invoked, after the two
\* before it threw, and has returned a result
LastProviderReturned ==
    LET llm == SelectSeq(req.calls, LAMBDA c : c.fn = "extractTimetableWithLLM")
    IN  /\ version = "first"
        /\ Len(llm) = 3
        /\ llm[3].name = "Gemini"
        /\ llm[3].state = "returned"

\* C2: when every provider call of extractTimetableWithLLM has thrown, the
\* extraction does not fail and its result is exactly the hardcoded fallback
\* schedule of the processor, which is not empty.
FallbackAfterTotalFailure ==
    LET llm == SelectSeq(req.calls, LAMBDA c : c.fn = "extractTimetableWithLLM")
        providers == IF version = "first" THEN 3 ELSE 2
        fallback == IF version = "first" THEN FirstFallbackBlocks
                    ELSE RagFallbackBlocks
    IN  (Len(llm) = providers /\ \A k \in 1..Len(llm) : llm[k].state = "threw")
            => /\ req.processImage = "resolved"
               /\ req.extracted
               /\ req.data.timeblocks = fallback
               /\ req.data.timeblocks /= <<>>

\* all three providers of the first processor have thrown
AllProvidersThrew ==
    LET llm == SelectSeq(req.calls, LAMBDA c : c.fn = "extractTimetableWithLLM")
    IN  /\ version = "first"
        /\ Len(llm) = 3
        /\ \A k \in 1..3 : llm[k].state = "threw"
        /\ req.extracted

\* C3: processImage never rejects; once it has settled it has resolved to a
\* value with a timeblocks list, whatever OCR, PDF text extraction and the
\* provider calls did.
ProcessImageNeverRejects ==
    /\ req.processImage /= "rejected"
    /\ req.processImage = "resolved"
           => /\ req.extracted
              /\ DOMAIN req.data = {"timeblocks"}
              /\ DOMAIN req.data.timeblocks = 1..Len(req.data.timeblocks)

\* processImage has resolved although the OCR engine threw
ResolvedAfterOcrThrew ==
    /\ req.processImage = "resolved"
    /\ \E k \in 1..Len(req.calls) :
           req.calls[k].fn = "performOCR" /\ req.calls[k].state = "threw"

\* C4: when the text a provider returned cannot be parsed as JSON, the result
\* of the extraction is the hardcoded fallback schedule, in both revisions of
\* parseJSONResponse.
UnparseableTextGivesFallback ==
    LET llm == SelectSeq(req.calls, LAMBDA c : c.fn = "extractTimetableWithLLM")
        fallback == IF version = "first" THEN FirstFallbackBlocks
                    ELSE RagFallbackBlocks
    IN  (/\ llm /= <<>>
         /\ llm[Len(llm)].state = "returned"
         /\ llm[Len(llm)].text = "unparseable")
            => req.data.timeblocks = fallback

\* C5: an upload of a type outside the whitelist is answered 400 and stores
\* nothing; an upload of a whitelisted type that meets no storage error adds
\* exactly one UploadedFile record, with processed false.
UploadKeepsWhitelist ==
    [][upload'.n /= upload.n =>
         LET whitelist ==
                 {"image/jpeg", "image/png", "image/jpg", "application/pdf",
                  "application/vnd.openxmlformats-officedocument.wordprocessingml.document"}
         IN  /\ (upload'.hasFile /\ upload'.type \notin whitelist)
                    => /\ upload'.status = 400
                       /\ disk' = disk
                       /\ files' = files
             /\ (/\ upload'.hasFile
                 /\ upload'.type \in whitelist
                 /\ upload'.storage \notin {"writeFailed", "createFailed"})
                    => /\ Len(files') = Len(files) + 1
                       /\ SubSeq(files', 1, Len(files)) = files
                       /\ ~files'[Len(files')].processed]_vars

\* a GIF image has been refused
GifRefused ==
    /\ upload.n = 1
    /\ upload.hasFile
    /\ upload.type = "image/gif"
    /\ upload.status = 400
    /\ files = <<>>
    /\ disk = {}

\* C6: POST /api/process answers 400 without a fileId, 404 when no
\* UploadedFile has the id and 400 'File already processed' when the file is
\* processed; in these cases the handler ends, creating no teacher, timetable
\* or timeblock and leaving the processed flags alone.
ProcessRefusesBadRequests ==
    [][nreq' /= nreq =>
         /\ req'.fileId = 0 => req'.status = 400
         /\ (req'.lookup = "ok" /\ req'.fileId \notin DOMAIN files)
                => req'.status = 404
         /\ (/\ req'.lookup = "ok"
             /\ req'.fileId \in DOMAIN files
             /\ files[req'.fileId].processed)
                => req'.status = 400 /\ req'.error = "File already processed"
         /\ req'.status \in {400, 404}
                => /\ req'.pc = "done"
                   /\ UNCHANGED <<teachers, timetables, timeblocks, files>>]_vars

\* a second request for a processed file has been refused
AlreadyProcessedRefused ==
    /\ req.status = 400
    /\ req.error = "File already processed"
    /\ files[req.fileId].processed

\* C7: when POST /api/process has answered with success, the file is marked
\* processed, the request has created exactly one timetable, its owner is an
\* existing teacher (the requested one if there was one, else the only teacher
\* with the default email), and the timeblocks stored under the timetable's id
\* are as many as the extraction returned.
SuccessLeavesOneTimetable ==
    req.status = 200 =>
        /\ files[req.fileId].processed
        /\ Cardinality({t \in DOMAIN timetables : timetables[t].by = nreq}) = 1
        /\ req.timetable \in DOMAIN timetables
        /\ timetables[req.timetable].by = nreq
        /\ LET owner == timetables[req.timetable].teacherId
           IN  /\ owner \in DOMAIN teachers
               /\ IF req.teacherId \in 1..req.teachersBefore
                  THEN owner = req.teacherId
                  ELSE /\ teachers[owner].email = "teacher@example.com"
                       /\ Cardinality({t \in DOMAIN teachers :
                              teachers[t].email = "teacher@example.com"}) = 1
        /\ Cardinality({k \in DOMAIN timeblocks :
               timeblocks[k].timetableId = req.timetable})
             = Len(req.data.timeblocks)

\* a request naming an existing teacher has succeeded with extracted blocks
SucceededForRequestedTeacher ==
    /\ req.status = 200
    /\ req.teacherId \in 1..req.teachersBefore
    /\ Len(req.data.timeblocks) > 1

\* C8: OCR is run if and only if the uploaded file's MIME type is an image
\* type, whatever the file was named.
OcrIffImageType ==
    LET ocr == \E k \in 1..Len(req.calls) : req.calls[k].fn = "performOCR"
        image == req.mimeType \in {"image/jpeg", "image/png", "image/jpg"}
    IN  /\ ocr => image
        /\ (req.pc = "teacher" /\ req.processImage = "resolved" /\ image) => ocr

\* C9: one processing issues at most one OCR call and at most three LLM calls,
\* never has two calls outstanding, and starts its first LLM call only after
\* the OCR call has completed.
OneSequentialChain ==
    LET ocrs == {k \in 1..Len(req.calls) : req.calls[k].fn = "performOCR"}
        llms == {k \in 1..Len(req.calls) : req.calls[k].fn /= "performOCR"}
        pending == {k \in 1..Len(req.calls) : req.calls[k].state = "pending"}
    IN  /\ Cardinality(ocrs) <= 1
        /\ Cardinality(llms) <= 3
        /\ Cardinality(pending) <= 1
        /\ \A o \in ocrs, l \in llms : o < l /\ req.calls[o].state /= "pending"

\* an OCR call and three LLM calls have been issued
FourCallsIssued ==
    /\ Len(req.calls) = 4
    /\ req.calls[1].fn = "performOCR"
    /\ req.calls[4].fn = "extractTimetableWithLLM"

\* C10: a render's sort leaves a permutation of the array it was given, each
\* block with its fields as they were, and leaves an array that is already
\* sorted in the order it has.
SortRoundTrips ==
    [][grid'.renders > 0 =>
         /\ Len(grid'.timeblocks) = Len(grid.timeblocks)
         /\ \A i \in 1..Len(grid.timeblocks) :
                Cardinality({j \in 1..Len(grid'.timeblocks) :
                                 grid'.timeblocks[j] = grid.timeblocks[i]})
                  = Cardinality({j \in 1..Len(grid.timeblocks) :
                                     grid.timeblocks[j] = grid.timeblocks[i]})
         /\ grid'.sortedTimeblocks = grid'.timeblocks
         /\ grid.renders > 0 => grid'.timeblocks = grid.timeblocks]_vars

\* an array that the first render has reordered has been rendered again
SortedTwice ==
    /\ grid.renders = 2
    /\ Len(grid.timeblocks) >= 2
    /\ \E i \in 1..Len(grid.timeblocks) : grid.timeblocks[i].id /= i
    /\ \E i, j \in 1..Len(grid.timeblocks) :
           /\ i < j
           /\ grid.timeblocks[i].dayOfWeek = grid.timeblocks[j].dayOfWeek
           /\ grid.timeblocks[i].startTime = grid.timeblocks[j].startTime

\* C11: after a render, the displayed blocks are in the order of their
\* weekdays (Monday first, Sunday last) and, within one weekday, in the order
\* of their start times on the clock, for start times written H:MM or HH:MM.
SortedByDayAndClock ==
    grid.renders > 0 =>
        \A i, j \in 1..Len(grid.sortedTimeblocks) :
            LET a == grid.sortedTimeblocks[i]
                b == grid.sortedTimeblocks[j]
            IN  (/\ i < j
                 /\ getDayOrder(a.dayOfWeek) >= 0
                 /\ getDayOrder(b.dayOfWeek) >= 0
                 /\ ClockMinutes(a.startTime) /= NaN
                 /\ ClockMinutes(b.startTime) /= NaN)
                    => \/ getDayOrder(a.dayOfWeek) < getDayOrder(b.dayOfWeek)
                       \/ /\ getDayOrder(a.dayOfWeek) = getDayOrder(b.dayOfWeek)
                          /\ ClockMinutes(a.startTime) <= ClockMinutes(b.startTime)

NestedArraysFlattened ==
    parser.pc = "mapped" =>
        /\ ~parser.threw
        /\ \A i \in 1..Len(parser.entries) :
               LET e == parser.entries[i]
                   carried == IF e.blocks.isArray THEN e.blocks
                              ELSE IF e.schedule.isArray THEN e.schedule
                              ELSE IF parser.version = "rag" THEN e.activities
                              ELSE NoArray
                   parentDay == IF e.dayOfWeek /= "" THEN e.dayOfWeek
                                ELSE IF e.day /= "" THEN e.day
                                ELSE "Monday"
               IN  IF carried.isArray
                   THEN /\ Len(parser.mapped[i]) = Len(carried.items)
                        /\ \A k \in 1..Len(parser.mapped[i]) :
                               parser.mapped[i][k].dayOfWeek = parentDay
                   ELSE Len(parser.mapped[i]) = 1
        /\ Len(parser.timeblocks) =
               Cardinality({p \in (1..Len(parser.mapped)) \X (1..(MaxNested + 1)) :
                               p[2] <= Len(parser.mapped[p[1]])})

\* C14: for every response that holds a JSON object (a "{" up to the "}" that
\* closes it), alone, inside prose or followed by more braces or objects, the
\* text handed to JSON.parse is exactly the first such object.
FirstObjectExtracted ==
    parser.pc = "cleaned" =>
        LET s == parser.response
            Depth(i, m) == Cardinality({k \in i..m : s[k] = "{"})
                               - Cardinality({k \in i..m : s[k] = "}"})
            objects == {p \in (1..Len(s)) \X (1..Len(s)) :
                           /\ p[1] < p[2]
                           /\ s[p[1]] = "{"
                           /\ Depth(p[1], p[2]) = 0
                           /\ \A m \in p[1]..(p[2] - 1) : Depth(p[1], m) > 0}
        IN  objects /= {} =>
                LET first == CHOOSE p \in objects :
                                 \A q \in objects : p[1] <= q[1]
                IN  parser.jsonContent = SubSeq(s, first[1], first[2])

\* C15: after any sequence of extractions in one process, a search of the
\* knowledge base for the title of a block that getEnhancedTimeblocks returned
\* last, with a limit the results do not reach, returns that block.
ReturnedBlocksAreIndexed ==
    rag.pc = "searched" =>
        \A k \in 1..Len(rag.timeblocks) :
            (/\ rag.timeblocks[k].title = rag.query
             /\ Len(rag.results) < DefaultLimit)
                => \E n \in 1..Len(rag.results) :
                       rag.results[n] = rag.timeblocks[k]

\* C16: no step of the handling of a process request changes the state that
\* requests share through the processor singleton: its knowledgeBase map is
\* after processImage what it was before.
SingletonStateUntouched ==
    [][(req.pc /= "idle" \/ req'.pc /= "idle") => knowledgeBase' = knowledgeBase]_vars

\* C17: the render that follows a drag of block A onto another block B of
\* the same day displays that day's blocks with A in the position B had
\* before the drag, and displays the same blocks as before.
DragMovesBlock ==
    [][(/\ grid.renders = 0
        /\ grid.active /= 0
        /\ grid'.renders > 0)
           => LET a == grid.timeblocks[findIndex(grid.timeblocks, grid.active)]
                  b == grid.timeblocks[findIndex(grid.timeblocks, grid.over)]
                  before == SelectSeq(grid.sortedTimeblocks,
                                LAMBDA x : x.dayOfWeek = a.dayOfWeek)
                  after == SelectSeq(grid'.sortedTimeblocks,
                               LAMBDA x : x.dayOfWeek = a.dayOfWeek)
              IN  a.dayOfWeek = b.dayOfWeek
                      => /\ findIndex(after, a.id) = findIndex(before, b.id)
                         /\ Range(grid'.sortedTimeblocks)
                                = Range(grid.sortedTimeblocks)]_vars

\* C18: the duration of every stored timeblock whose startTime and endTime
\* are clock times is the number of minutes from the one to the other, also
\* after PUT /api/timeblocks/[id] requests that change them.
DurationIsEndMinusStart ==
    \A k \in DOMAIN timeblocks :
        (/\ ClockMinutes(timeblocks[k].startTime) /= NaN
         /\ ClockMinutes(timeblocks[k].endTime) /= NaN)
            => timeblocks[k].duration =
                   ClockMinutes(timeblocks[k].endTime)
                       - ClockMinutes(timeblocks[k].startTime)

\* C19: whatever the interleaving of the POST /api/process requests for one
\* fileId, at most one timetable is ever created for the file.
OneTimetablePerFile ==
    \A f \in DOMAIN files :
        Cardinality({t \in DOMAIN timetables :
                         /\ timetables[t].by \in DOMAIN race
                         /\ race[timetables[t].by].fileId = f}) <= 1

\* C20: when POST /api/process has answered 500, nothing the request created
\* remains: no timetable of the request, no timeblock under a timetable of the
\* request, and the file is still not processed.
FailureLeavesNothing ==
    req.status = 500 =>
        /\ \A t \in DOMAIN timetables : timetables[t].by /= nreq
        /\ \A k \in DOMAIN timeblocks :
               timetables[timeblocks[k].timetableId].by /= nreq
        /\ req.fileId \in DOMAIN files => ~files[req.fileId].processed

----------------------------------------------------------------------------
(* Claims on the log capture, the grid's edits, the standard blocks, the    *)
(* OCR lines, the durations and the home page                              *)

\* C21: in the log-capturing process route, once every process request that
\* was started has responded, console.log, console.error and console.warn are
\* the functions they were before the first request, and no LogCapture has
\* received a line after its request responded.
ConsoleRestoredWhenIdle ==
    (\A i \in DOMAIN console.captures : console.captures[i].pc = "responded")
        => /\ console.fns = NativeConsole
           /\ \A i \in DOMAIN console.captures : ~console.captures[i].late

\* C22: every PUT /api/timetables/[id] that handleSaveCreate sent and that has
\* been answered left the rows stored before it in place, and, when it
\* succeeded, added exactly the new row to them.
AddKeepsStoredBlocks ==
    \A p \in DOMAIN client.puts :
        /\ client.puts[p].pc \in {"done", "failed"}
              => client.puts[p].before \subseteq client.puts[p].after
        /\ client.puts[p].pc = "done"
              => client.puts[p].after
                     = client.puts[p].before \cup {client.puts[p].new}

\* C23: in the first processor, when an extracted block is titled with the
\* name of a standard category, parseJSONResponse appends no standard block of
\* that category.
StandardOnlyIfAbsent ==
    (parser.pc = "returned" /\ parser.version = "first")
        => \A k \in DOMAIN StandardKinds :
              (\E i \in DOMAIN parser.timeblocks :
                   parser.timeblocks[i].title = CategoryName(StandardKinds[k]))
                 => ~ \E j \in DOMAIN parser.standardBlocks :
                        parser.standardBlocks[j]
                            = StdBlock(StandardKinds[k],
                                       parser.standardBlocks[j].dayOfWeek)

\* C24: the list the RAG processor's parseJSONResponse returns never holds two
\* blocks with the same title, day of week and start time.
NoBlockTwice ==
    (parser.pc = "returned" /\ parser.version = "rag")
        => \A i, j \in DOMAIN parser.allTimeblocks :
              (/\ parser.allTimeblocks[i].title = parser.allTimeblocks[j].title
               /\ parser.allTimeblocks[i].dayOfWeek
                      = parser.allTimeblocks[j].dayOfWeek
               /\ parser.allTimeblocks[i].startTime
                      = parser.allTimeblocks[j].startTime)
                 => i = j

\* C25: when Tesseract or pdf-parse gave no text or failed, the processor
\* calls no LLM provider, and what processImage resolves with is the hardcoded
\* fallback schedule of its revision.
NoTextMeansFallbackWithoutLLM ==
    req.sourceText \in {"empty", "threw"}
        => /\ \A k \in 1..Len(req.calls) :
                  req.calls[k].fn /= "extractTimetableWithLLM"
           /\ req.processImage = "resolved"
                  => req.data = getFallbackData(version)

\* C26: what searchKnowledgeBase(query, limit) returns has at most limit
\* blocks, has no block twice, has only blocks that are stored under an index
\* key matching the query or whose title or description holds the query, and
\* has every block whose title or description holds the query before every
\* block that does not.
SearchBoundedDistinctRelevantRanked ==
    rag.pc = "searched" =>
        LET q == ToLowerCase(rag.query)
            r == rag.results
            holds(b) == \/ Includes(ToLowerCase(b.title), q)
                        \/ Includes(ToLowerCase(b.description), q)
            keyed(b) == \E e \in DOMAIN knowledgeBase :
                            /\ \/ Includes(q, knowledgeBase[e].key)
                               \/ Includes(knowledgeBase[e].key, q)
                            /\ \E n \in DOMAIN knowledgeBase[e].blocks :
                                   knowledgeBase[e].blocks[n] = b
        IN  /\ Len(r) <= rag.limit
            /\ \A i, j \in DOMAIN r : r[i] = r[j] => i = j
            /\ \A i \in DOMAIN r : keyed(r[i]) \/ holds(r[i])
            /\ \A i, j \in DOMAIN r : (i < j /\ holds(r[j])) => holds(r[i])

\* a search returned a block that holds the query before one that is only
\* stored under a matching key, and nothing beyond its limit
SearchRankedTwoBlocks ==
    /\ rag.pc = "searched"
    /\ Len(rag.results) = 2
    /\ rag.limit = 2
    /\ Includes(ToLowerCase(rag.results[1].title), ToLowerCase(rag.query))
    /\ ~ Includes(ToLowerCase(rag.results[2].title), ToLowerCase(rag.query))
    /\ ~ Includes(ToLowerCase(rag.results[2].description), ToLowerCase(rag.query))

\* C27: groupWordsByLines partitions its words into lines: each word is in
\* exactly one line, no line is empty, each word of a line has its y0 within
\* 20 pixels of the line's first word, and the first word of each later line
\* lies more than 20 pixels below the first word of the line before.
WordsPartitionedIntoLines ==
    words.pc = "grouped" =>
        LET ls == words.lines
            all == {<<l, k>> : l \in DOMAIN ls, k \in 1..MaxWords + 1}
            places == {p \in all : p[2] <= Len(ls[p[1]])}
        IN  /\ Cardinality(places) = Len(words.words)
            /\ \A w \in Range(words.words) :
                   Cardinality({p \in places : ls[p[1]][p[2]] = w})
                       = Cardinality({i \in DOMAIN words.words :
                                          words.words[i] = w})
            /\ \A l \in DOMAIN ls : Len(ls[l]) > 0
            /\ \A p \in places :
                   /\ ls[p[1]][p[2]].y0 - ls[p[1]][1].y0 <= 20
                   /\ ls[p[1]][1].y0 - ls[p[1]][p[2]].y0 <= 20
            /\ \A l \in DOMAIN ls :
                   l > 1 => ls[l][1].y0 - ls[l - 1][1].y0 > 20
            /\ \A p \in places : words.texts[p[1]][p[2]] = ls[p[1]][p[2]].text
            /\ DOMAIN words.texts = DOMAIN ls

\* three words whose tops are 15 pixels apart in a chain were grouped: the
\* third is within the threshold of the second and not of the first
ChainOfWordsGrouped ==
    /\ words.pc = "grouped"
    /\ {words.words[i].y0 : i \in DOMAIN words.words} = {0, 15, 30}
    /\ Len(words.lines) = 2

\* C28: calculateDuration(start, end) returns the minutes from the time that
\* start names to the time that end names when end is the later one, and 60
\* when it is not or when one of the two names no time; its result is a
\* strictly positive number of minutes.  A time is named H:MM or HH:MM on the
\* 24-hour clock, or H:MM followed by AM or PM on the 12-hour clock.
DurationIsPositiveDifference ==
    clock.pc = "returned" =>
        LET named(s) ==
                LET t == Trim(s)
                    n == Len(t)
                    half == IF n >= 2 THEN SubSeq(t, n - 1, n) ELSE <<>>
                    hm == ClockMinutes(Trim(SubSeq(t, 1, n - 2)))
                IN  IF half \in {<<"A","M">>, <<"P","M">>}
                    THEN IF hm = NaN \/ hm < 60 \/ hm >= 13 * 60 THEN NaN
                         ELSE (hm % (12 * 60))
                                  + (IF half = <<"P","M">> THEN 12 * 60 ELSE 0)
                    ELSE ClockMinutes(t)
            s == named(clock.startTime)
            e == named(clock.endTime)
        IN  /\ clock.duration > 0
            /\ clock.duration
                   = IF s /= NaN /\ e /= NaN /\ e - s > 0 THEN e - s ELSE 60

\* C29: on the home page the selected timetable is null or a timetable of the
\* page's timetable list; after the selected timetable is deleted the
\* selection does not refer to it.
SelectionIsListed ==
    home.pc = "ready" =>
        \/ home.selectedTimetable = Null
        \/ home.selectedTimetable.id \in Ids(home.timetables)

====
